---------------------------- MODULE Spec2Model ----------------------------
(***************************************************************************)
(* Presence-reconciliation and alarm engine of the object tracking web     *)
(* application (src/app/state.py, src/app/services/tracking_service.py,    *)
(* src/app/routes/tracking_routes.py, src/app/routes/camera_routes.py,     *)
(* src/app/handlers/socket_handlers.py, src/app/services/ml_service.py).   *)
(*                                                                         *)
(* Lengths are pixels, confidences are percent (0.3 is 30), time is an     *)
(* integer clock of seconds.  A distance is kept as four times its square  *)
(* (centres are x + width/2), so that every comparison the code makes on   *)
(* floats is made here on integers.                                        *)
(***************************************************************************)
EXTENDS Integers, Sequences, FiniteSets, TLC

(***************************************************************************)
(* Bounds of the model.                                                    *)
(***************************************************************************)
MaxItems == 1        \* tracked items, with the whole system running
MaxTime == 4         \* the last second of the clock
ManyItems == 2       \* tracked items, where several are needed
ShortTime == 3       \* the last second of the clock, with several items
MaxBatch == 1        \* detections in one batch
RaceTime == 1        \* the last second of the clock, with concurrent handlers
RegistryTime == 1    \* the last second of the clock, with the registry alone
MaxMissed == 5       \* the largest missing_count told from larger ones
GraceTime == 11      \* the last second of the clock, with the default interval

(***************************************************************************)
(* Program constants.                                                      *)
(***************************************************************************)
DEFAULT_TRACKING_INTERVAL == 5
MIN_TRACKING_INTERVAL == 1
MAX_TRACKING_INTERVAL == 60
MISSING_ITEM_THRESHOLD_MULTIPLIER == 2
DedupProximity == 25
DedupOverlapPct == 30
TrackingThresholdPct == 30
ReidProximity == 100
ReidOverlapPct == 20
MissingCountThreshold == 2
DefaultClassId == -1

(***************************************************************************)
(* Values.  A bounding box is absent (None, or the key is missing), empty  *)
(* ({}) or a box; a class_id is absent (NoClassId) or an integer.          *)
(***************************************************************************)
NoBox == [k |-> "none", x |-> 0, y |-> 0, w |-> 0, h |-> 0]
EmptyBox == [k |-> "empty", x |-> 0, y |-> 0, w |-> 0, h |-> 0]
Box(x, y, w, h) == [k |-> "box", x |-> x, y |-> y, w |-> w, h |-> h]
\* A bbox a client posts that is no dict: a non-empty JSON string.
StrBox == [k |-> "str", x |-> 0, y |-> 0, w |-> 0, h |-> 0]
NoClassId == -2
Inf == -1

Min(a, b) == IF a <= b THEN a ELSE b
Max(a, b) == IF a >= b THEN a ELSE b

\* Python's truth value of a bbox: None and {} are false.
Truthy(bbox) == bbox.k = "box"

\* calculate_bbox_distance and calculate_bbox_overlap_ratio raise an
\* AttributeError: both values pass the `not bbox` tests and one of them has
\* no method get.
BoxRaises(bbox1, bbox2) ==
    /\ bbox1.k \in {"box", "str"}
    /\ bbox2.k \in {"box", "str"}
    /\ bbox1.k = "str" \/ bbox2.k = "str"

\* Four times the squared distance between the centres, Inf when a box is
\* absent or empty.
calculate_bbox_distance(bbox1, bbox2) ==
    IF ~Truthy(bbox1) \/ ~Truthy(bbox2) THEN Inf
    ELSE LET dx == (2 * bbox1.x + bbox1.w) - (2 * bbox2.x + bbox2.w)
             dy == (2 * bbox1.y + bbox1.h) - (2 * bbox2.y + bbox2.h)
         IN  dx * dx + dy * dy

\* distance <= threshold, on a value of calculate_bbox_distance.
DistLE(d, threshold) == d # Inf /\ d <= 4 * threshold * threshold

\* d1 < d2 on values of calculate_bbox_distance (inf < inf is false).
DistLT(d1, d2) == d1 # Inf /\ (d2 = Inf \/ d1 < d2)

\* An overlap ratio over the larger of the two areas; C25 tells it from
\* calculate_bbox_overlap_ratio.
OverlapOverLarger(bbox1, bbox2) ==
    IF ~Truthy(bbox1) \/ ~Truthy(bbox2) THEN <<0, 1>>
    ELSE LET inter_x1 == Max(bbox1.x, bbox2.x)
             inter_y1 == Max(bbox1.y, bbox2.y)
             inter_x2 == Min(bbox1.x + bbox1.w, bbox2.x + bbox2.w)
             inter_y2 == Min(bbox1.y + bbox1.h, bbox2.y + bbox2.h)
             larger_area == Max(bbox1.w * bbox1.h, bbox2.w * bbox2.h)
         IN  IF inter_x2 <= inter_x1 \/ inter_y2 <= inter_y1 THEN <<0, 1>>
             ELSE IF larger_area = 0 THEN <<0, 1>>
             ELSE <<(inter_x2 - inter_x1) * (inter_y2 - inter_y1), larger_area>>

\* The overlap ratio as <<numerator, denominator>>: intersection area over
\* the smaller area, <<0, 1>> where the code returns 0.0.
calculate_bbox_overlap_ratio(bbox1, bbox2) ==
    IF ~Truthy(bbox1) \/ ~Truthy(bbox2) THEN <<0, 1>>
    ELSE LET inter_x1 == Max(bbox1.x, bbox2.x)
             inter_y1 == Max(bbox1.y, bbox2.y)
             inter_x2 == Min(bbox1.x + bbox1.w, bbox2.x + bbox2.w)
             inter_y2 == Min(bbox1.y + bbox1.h, bbox2.y + bbox2.h)
             smaller_area == Min(bbox1.w * bbox1.h, bbox2.w * bbox2.h)
         IN  IF inter_x2 <= inter_x1 \/ inter_y2 <= inter_y1 THEN <<0, 1>>
             ELSE IF smaller_area = 0 THEN <<0, 1>>
             ELSE <<(inter_x2 - inter_x1) * (inter_y2 - inter_y1), smaller_area>>

\* ratio > pct / 100, on a value of calculate_bbox_overlap_ratio.
RatioGT(r, pct) == 100 * r[1] > pct * r[2]


(***************************************************************************)
(* Inputs.  Detections arrive from the detector (latest_detections) and    *)
(* from the client of the add route; the boxes are chosen so that every    *)
(* side of every threshold occurs:                                         *)
(*   BoxA-BoxB  distance 7.07 (<= 25), overlap 0.25                        *)
(*   BoxA-BoxC  distance 40 (> 25, <= 100), overlap 0                      *)
(*   BoxA-BoxD  distance 300 (> 100), overlap 0                            *)
(*   BoxA-BoxW  distance 195 (> 100), overlap 1 (BoxA lies inside BoxW)    *)
(***************************************************************************)
BoxA == Box(0, 0, 10, 10)
BoxB == Box(5, 5, 10, 10)
BoxC == Box(40, 0, 10, 10)
BoxW == Box(0, 0, 400, 10)
BoxD == Box(300, 0, 10, 10)

Detection(label, confidence, class_id, bbox) ==
    [label |-> label, confidence |-> confidence, class_id |-> class_id, bbox |-> bbox]

CupA == Detection("cup", 90, 0, BoxA)
CupB == Detection("cup", 90, 0, BoxB)
CupC == Detection("cup", 90, 1, BoxC)
PenEmpty == Detection("pen", 90, 2, EmptyBox)
PenNoBox == Detection("pen", 90, NoClassId, NoBox)

CupW == Detection("cup", 90, 0, BoxW)
PenD == Detection("pen", 90, 2, BoxD)
\* A cup at BoxA reported with a confidence of exactly 0.3.
CupFaint == Detection("cup", TrackingThresholdPct, 0, BoxA)
\* A cup whose bbox the client posted as a string.
CupStr == Detection("cup", 90, 0, StrBox)
CupAny == Detection("cup", 90, NoClassId, BoxB)

\* What the client of the add route sends.  With the monitor running: two
\* objects of one label that are not duplicates of each other (40 px apart).
AddInputs == {CupA, CupC}

\* With the registry alone: duplicates by distance (CupA, CupB), by overlap
\* alone (CupA, CupW), with and without class_id, with and without a bbox.
RegistryAddInputs == {CupA, CupB, CupC, CupW, CupAny, PenEmpty, PenNoBox}

\* What the detector reports (detect_objects always sets class_id, and a
\* bbox that is {} or a box).
FeedDetections == {CupA}

RECURSIVE SeqsUpTo(_, _)
SeqsUpTo(S, n) ==
    IF n = 0 THEN {<<>>}
    ELSE LET shorter == SeqsUpTo(S, n - 1)
         IN  shorter \cup {Append(q, e) : q \in {r \in shorter : Len(r) = n - 1}, e \in S}

Batches == SeqsUpTo(FeedDetections, MaxBatch)

\* A value of the request's JSON body as Python sees it: its type, and the
\* number it compares as (True compares as 1 and False as 0).
JInt(n) == [kind |-> "int", num |-> n]
JTrue == [kind |-> "bool", num |-> 1]
JFalse == [kind |-> "bool", num |-> 0]
JFloat(n) == [kind |-> "float", num |-> n]
JStr(n) == [kind |-> "str", num |-> n]
JNull == [kind |-> "NoneType", num |-> 0]

\* isinstance(value, int): bool is a subclass of int.
IsInstanceInt(value) == value.kind \in {"int", "bool"}

\* Interval values a client may post: below, inside and above the range.
IntervalInputs == {JInt(0), JInt(1), JInt(61)}

\* Every kind of JSON value a client may post as the interval.
JsonIntervalInputs ==
    {JInt(0), JInt(1), JInt(60), JInt(61), JTrue, JFalse, JFloat(5), JStr(5), JNull}

UnknownId == <<99, 99>>

(***************************************************************************)
(* State: the module-level variables of app/state.py, the clock, the       *)
(* monitor threads, and what the last step returned and emitted.           *)
(***************************************************************************)
VARIABLES
    tracked_items,          \* list of tracked item records, in insertion order
    tracking_active,
    tracking_interval,
    tracking_thread,        \* 0 (None) or the id of the last monitor thread created
    alarm_active,
    missing_items,          \* the last missing set: a list of references [ref, id]
    latest_detections,
    camera_connected,
    camera_streaming,
    auto_detection_active,
    now,                    \* the clock, in seconds
    threads,                \* monitor threads: id -> [pc, wake, idx, cur]
    handlers,               \* request handlers in progress: id -> [op, pc]
    last,                   \* the last operation: [op, arg, ok, msg]
    emitted                 \* the alarm and tracking events the last step emitted

vars == <<tracked_items, tracking_active, tracking_interval, tracking_thread,
          alarm_active, missing_items, latest_detections, camera_connected,
          camera_streaming, auto_detection_active, now, threads, handlers,
          last, emitted>>

registry_vars == <<tracked_items, tracking_active, tracking_interval, tracking_thread,
                   alarm_active, missing_items>>
camera_vars == <<camera_connected, camera_streaming, auto_detection_active>>

ThreadIds == {1, 2}
NoThread == [pc |-> "none", wake |-> 0, idx |-> 0, cur |-> <<>>]
HandlerIds == {1, 2}
Idle == [op |-> "idle", pc |-> "idle"]

Ret(op, arg, ok, msg) == [op |-> op, arg |-> arg, ok |-> ok, msg |-> msg]
Event(name, items) == [name |-> name, items |-> items]

(***************************************************************************)
(* IdentityMatcher, dedup mode (state.py).                                 *)
(***************************************************************************)
\* A matcher that tests the distance only; C1 tells it from ItemMatches.
ItemMatchesDistanceOnly(tracked_item, label, class_id, bbox, proximity_threshold) ==
    /\ tracked_item.label = label
    /\ ~(class_id # NoClassId /\ tracked_item.class_id # class_id)
    /\ IF bbox.k # "none"
       THEN DistLE(calculate_bbox_distance(bbox, tracked_item.bbox), proximity_threshold)
       ELSE TRUE

\* One tracked item against (label, class_id, bbox): the body of the loop.
ItemMatches(tracked_item, label, class_id, bbox, proximity_threshold) ==
    /\ tracked_item.label = label
    /\ ~(class_id # NoClassId /\ tracked_item.class_id # class_id)
    /\ IF bbox.k # "none"
       THEN \/ DistLE(calculate_bbox_distance(bbox, tracked_item.bbox), proximity_threshold)
            \/ RatioGT(calculate_bbox_overlap_ratio(bbox, tracked_item.bbox), DedupOverlapPct)
       ELSE TRUE

is_object_already_tracked(items, label, class_id, bbox, proximity_threshold) ==
    \E i \in 1..Len(items) :
        ItemMatches(items[i], label, class_id, bbox, proximity_threshold)

\* The loop raises before it returns: the first item of the label and
\* class_id that ends the loop does so with an AttributeError.
ItemRaisesDedup(tracked_item, label, class_id, bbox) ==
    /\ tracked_item.label = label
    /\ ~(class_id # NoClassId /\ tracked_item.class_id # class_id)
    /\ bbox.k # "none"
    /\ BoxRaises(bbox, tracked_item.bbox)

DedupRaises(items, label, class_id, bbox, proximity_threshold) ==
    \E i \in 1..Len(items) :
        /\ ItemRaisesDedup(items[i], label, class_id, bbox)
        /\ \A j \in 1..(i - 1) :
              ~ItemMatches(items[j], label, class_id, bbox, proximity_threshold)

(***************************************************************************)
(* TrackedItemRegistry (tracking_service.py).                              *)
(***************************************************************************)
\* f"track_{len(state.tracked_items)}_{int(time.time())}"
NewId(items, t) == <<Len(items), t>>

\* The identity of a new dict: one that no live object has.  An object is
\* alive while the registry, missing_items or a monitor thread refers to it.
LiveRefs ==
    {tracked_items[i].ref : i \in 1..Len(tracked_items)}
        \cup {missing_items[i].ref : i \in 1..Len(missing_items)}
        \cup UNION {{threads[t].cur[i].ref : i \in 1..Len(threads[t].cur)} : t \in ThreadIds}
NewRef == CHOOSE r \in 1..(Cardinality(LiveRefs) + 1) : r \notin LiveRefs

NewItem(items, detection, t) ==
    [ref |-> NewRef,
     id |-> NewId(items, t),
     label |-> detection.label,
     class_id |-> IF detection.class_id = NoClassId THEN DefaultClassId ELSE detection.class_id,
     bbox |-> IF detection.bbox.k = "none" THEN EmptyBox ELSE detection.bbox,
     last_seen |-> t,
     is_present |-> TRUE,
     alarm_enabled |-> TRUE,
     missing_count |-> 0]

\* The list after add_to_tracking(detection): unchanged on a duplicate, and
\* when the duplicate test raises.
add_to_tracking(items, detection, t) ==
    IF DedupRaises(items, detection.label, detection.class_id, detection.bbox,
                   DedupProximity)
    THEN items
    ELSE IF is_object_already_tracked(items, detection.label, detection.class_id,
                                 detection.bbox, DedupProximity)
    THEN items
    ELSE Append(items, NewItem(items, detection, t))

RECURSIVE Without(_, _)
Without(items, item_id) ==
    IF items = <<>> THEN <<>>
    ELSE IF Head(items).id = item_id THEN Without(Tail(items), item_id)
    ELSE <<Head(items)>> \o Without(Tail(items), item_id)

remove_from_tracking(items, item_id) == Without(items, item_id)

\* refresh_detection_tracking_status: emits only when there are detections.
RefreshEvents(dets) ==
    IF dets # <<>> THEN <<Event("detection_tracking_update", <<>>)>> ELSE <<>>


(***************************************************************************)
(* IdentityMatcher, re-identify mode, and one reconciliation cycle         *)
(* (check_tracked_items).                                                  *)
(***************************************************************************)
\* Lines 113-128: the detection passes the label, confidence and proximity tests.
IsCandidate(tracked_item, detection) ==
    /\ detection.label = tracked_item.label
    /\ detection.confidence > TrackingThresholdPct
    /\ \/ DistLE(calculate_bbox_distance(tracked_item.bbox, detection.bbox), ReidProximity)
       \/ RatioGT(calculate_bbox_overlap_ratio(tracked_item.bbox, detection.bbox), ReidOverlapPct)

\* Lines 111-124: a detection of the item's label and of enough confidence
\* has the two bboxes compared, and the comparison raises.
ItemRaises(tracked_item, dets) ==
    \E k \in 1..Len(dets) :
        /\ dets[k].label = tracked_item.label
        /\ dets[k].confidence > TrackingThresholdPct
        /\ BoxRaises(tracked_item.bbox, dets[k].bbox)

\* A monitor that takes the first detection that passes the tests; C24
\* tells it from BestMatchFrom.
RECURSIVE FirstMatchFrom(_, _, _, _, _)
FirstMatchFrom(tracked_item, dets, i, best_match, best_distance) ==
    IF i > Len(dets) THEN best_match
    ELSE IF IsCandidate(tracked_item, dets[i]) /\ best_match = 0
    THEN FirstMatchFrom(tracked_item, dets, i + 1, i, best_distance)
    ELSE FirstMatchFrom(tracked_item, dets, i + 1, best_match, best_distance)

\* Lines 107-131: the index of best_match in the batch, 0 for None.
RECURSIVE BestMatchFrom(_, _, _, _, _)
BestMatchFrom(tracked_item, dets, i, best_match, best_distance) ==
    IF i > Len(dets) THEN best_match
    ELSE LET distance == calculate_bbox_distance(tracked_item.bbox, dets[i].bbox)
         IN  IF IsCandidate(tracked_item, dets[i]) /\ DistLT(distance, best_distance)
             THEN BestMatchFrom(tracked_item, dets, i + 1, i, distance)
             ELSE BestMatchFrom(tracked_item, dets, i + 1, best_match, best_distance)

BestMatch(tracked_item, dets) == BestMatchFrom(tracked_item, dets, 1, 0, Inf)

\* A monitor that arms the alarm of an item it finds again; C18 tells it
\* from Matched.
MatchedRearms(tracked_item, detection, t) ==
    [tracked_item EXCEPT !.last_seen = t, !.is_present = TRUE,
                         !.bbox = detection.bbox, !.missing_count = 0,
                         !.alarm_enabled = TRUE]

\* Lines 133-139: the item after a match.
Matched(tracked_item, detection, t) ==
    [tracked_item EXCEPT !.last_seen = t, !.is_present = TRUE,
                         !.bbox = detection.bbox, !.missing_count = 0]

\* An unmatched item joins current_missing whatever the time since it was
\* seen; C12 tells it from JoinsMissing.
JoinsMissingNoGrace(tracked_item, t, interval) ==
    /\ tracked_item.missing_count + 1 >= MissingCountThreshold
    /\ tracked_item.alarm_enabled

\* A monitor that does not count the misses; C13 tells it from Unmatched.
UnmatchedNotCounted(tracked_item) == tracked_item

\* A monitor without hysteresis: absent after one miss; C3 tells it from
\* Unmatched.
UnmatchedNoHysteresis(tracked_item) ==
    [tracked_item EXCEPT !.missing_count = @ + 1, !.is_present = FALSE]

\* Lines 141-148: the item after a cycle without a match.  The count is kept
\* up to MaxMissed; the code compares it with 2 only.
Unmatched(tracked_item) ==
    LET missing_count == Min(tracked_item.missing_count + 1, MaxMissed)
    IN  [tracked_item EXCEPT !.missing_count = missing_count,
                             !.is_present = IF missing_count >= MissingCountThreshold
                                            THEN FALSE ELSE @]

\* Lines 147-158: the unmatched item joins current_missing.
JoinsMissing(tracked_item, t, interval) ==
    /\ tracked_item.missing_count + 1 >= MissingCountThreshold
    /\ tracked_item.alarm_enabled
    /\ t - tracked_item.last_seen > interval * MISSING_ITEM_THRESHOLD_MULTIPLIER

\* Lines 105-165 for one item: the item afterwards, and whether it is missing.
ReconcileItem(tracked_item, dets, t, interval) ==
    LET best_match == BestMatch(tracked_item, dets)
    IN  IF best_match # 0
        THEN [item |-> Matched(tracked_item, dets[best_match], t), missing |-> FALSE]
        ELSE [item |-> Unmatched(tracked_item),
              missing |-> JoinsMissing(tracked_item, t, interval)]

\* current_missing.append(tracked_item): a reference to the dict.
RefTo(tracked_item) == [ref |-> tracked_item.ref, id |-> tracked_item.id]

\* Lines 100-165: the for loop from item i on, left by the exception that
\* the body raises for an item.
RECURSIVE ReconcileFrom(_, _, _, _, _, _)
ReconcileFrom(items, i, current_missing, dets, t, interval) ==
    IF i > Len(items)
    THEN [items |-> items, missing |-> current_missing, raised |-> FALSE]
    ELSE IF ItemRaises(items[i], dets)
    THEN [items |-> items, missing |-> current_missing, raised |-> TRUE]
    ELSE LET r == ReconcileItem(items[i], dets, t, interval)
         IN  ReconcileFrom([items EXCEPT ![i] = r.item], i + 1,
                           IF r.missing THEN Append(current_missing, RefTo(r.item))
                           ELSE current_missing,
                           dets, t, interval)

\* A level-triggered alarm: every cycle with a missing item reports it; C4 tells it from
\* AlarmEdge.
AlarmLevel(missing, active) ==
    IF missing # <<>>
    THEN [active |-> TRUE, events |-> <<Event("alarm_triggered", missing)>>]
    ELSE IF active
    THEN [active |-> FALSE, events |-> <<Event("alarm_cleared", <<>>)>>]
    ELSE [active |-> active, events |-> <<>>]

\* Lines 170-183: the alarm flag and the events after missing_items is set.
AlarmEdge(missing, active) ==
    IF missing # <<>> /\ ~active
    THEN [active |-> TRUE, events |-> <<Event("alarm_triggered", missing)>>]
    ELSE IF missing = <<>> /\ active
    THEN [active |-> FALSE, events |-> <<Event("alarm_cleared", <<>>)>>]
    ELSE [active |-> active, events |-> <<>>]

(***************************************************************************)
(* AlarmController commands.                                               *)
(***************************************************************************)
\* Lines 232-236: the first tracked item with this id has its alarm disabled.
RECURSIVE DisableFirst(_, _)
DisableFirst(items, item_id) ==
    IF items = <<>> THEN <<>>
    ELSE IF Head(items).id = item_id
    THEN <<[Head(items) EXCEPT !.alarm_enabled = FALSE]>> \o Tail(items)
    ELSE <<Head(items)>> \o DisableFirst(Tail(items), item_id)

\* Lines 230-236: for every missing item.
RECURSIVE DisableAll(_, _)
DisableAll(items, missing) ==
    IF missing = <<>> THEN items
    ELSE DisableAll(DisableFirst(items, Head(missing).id), Tail(missing))

\* An enable_alarm that finds the item and leaves its flag as it is.
EnableNothing(items, item_id) == items

\* enable_alarm: the first tracked item with this id has its alarm enabled.
RECURSIVE EnableFirst(_, _)
EnableFirst(items, item_id) ==
    IF items = <<>> THEN <<>>
    ELSE IF Head(items).id = item_id
    THEN <<[Head(items) EXCEPT !.alarm_enabled = TRUE]>> \o Tail(items)
    ELSE <<Head(items)>> \o EnableFirst(Tail(items), item_id)

HasId(items, item_id) == \E i \in 1..Len(items) : items[i].id = item_id

\* threading.Thread.is_alive()
IsAlive(t) == t # 0 /\ threads[t].pc \notin {"none", "created", "dead"}
FreeThreads == {t \in ThreadIds : threads[t].pc \in {"none", "dead"}}
NewThread == CHOOSE t \in FreeThreads : \A u \in FreeThreads : t <= u


(***************************************************************************)
(* The state after import of app/state.py.                                 *)
(***************************************************************************)
Init ==
    /\ tracked_items = <<>>
    /\ tracking_active = FALSE
    /\ tracking_interval = DEFAULT_TRACKING_INTERVAL
    /\ tracking_thread = 0
    /\ alarm_active = FALSE
    /\ missing_items = <<>>
    /\ latest_detections = <<>>
    /\ camera_connected = FALSE
    /\ camera_streaming = FALSE
    /\ auto_detection_active = FALSE
    /\ now = 0
    /\ threads = [t \in ThreadIds |-> NoThread]
    /\ handlers = [h \in HandlerIds |-> Idle]
    /\ last = Ret("init", 0, TRUE, "")
    /\ emitted = <<>>

(***************************************************************************)
(* The routes of tracking_routes.py, each request handled in one step.     *)
(***************************************************************************)
\* POST /api/tracking/add
AddRoute(detection) ==
    LET items == add_to_tracking(tracked_items, detection, now)
        ok == items # tracked_items
        raised == DedupRaises(tracked_items, detection.label, detection.class_id,
                              detection.bbox, DedupProximity)
    IN  /\ tracked_items' = items
        /\ last' = Ret("add", detection, ok,
                       IF ok THEN "Object added to tracking"
                       ELSE IF raised THEN "Internal Server Error"
                       ELSE "Object is already being tracked")
        /\ emitted' = IF ok THEN RefreshEvents(latest_detections) ELSE <<>>
        /\ UNCHANGED <<tracking_active, tracking_interval, tracking_thread, alarm_active,
                       missing_items, latest_detections, camera_vars, now, threads, handlers>>

\* POST /api/tracking/remove
RemoveRoute(item_id) ==
    /\ tracked_items' = remove_from_tracking(tracked_items, item_id)
    /\ last' = Ret("remove", item_id, TRUE, "Item removed from tracking")
    /\ emitted' = RefreshEvents(latest_detections)
    /\ UNCHANGED <<tracking_active, tracking_interval, tracking_thread, alarm_active,
                   missing_items, latest_detections, camera_vars, now, threads, handlers>>

\* POST /api/tracking/clear
ClearRoute ==
    /\ tracked_items' = <<>>
    /\ tracking_active' = FALSE
    /\ alarm_active' = FALSE
    /\ last' = Ret("clear", 0, TRUE, "All tracked items cleared")
    /\ emitted' = RefreshEvents(latest_detections)
    /\ UNCHANGED <<tracking_interval, tracking_thread, missing_items, latest_detections,
                   camera_vars, now, threads, handlers>>

\* A start() that does not look at the registry; C6 tells it from
\* StartAllowed.
StartAllowedAnyRegistry == ~tracking_active

\* Lines 194-198: start_tracking goes on to start the monitor.
StartAllowed == tracked_items # <<>> /\ ~tracking_active

\* POST /api/tracking/start, rejected
StartRejected ==
    /\ ~StartAllowed
    /\ last' = Ret("start", 0, FALSE,
                   IF tracked_items = <<>> THEN "No items to track"
                   ELSE "Tracking already active")
    /\ emitted' = <<>>
    /\ UNCHANGED <<registry_vars, latest_detections, camera_vars, now, threads, handlers>>

\* POST /api/tracking/start, accepted: a thread is created unless the last
\* one is still alive.
StartAccepted ==
    /\ StartAllowed
    /\ tracking_active' = TRUE
    /\ IF IsAlive(tracking_thread)
       THEN UNCHANGED <<tracking_thread, threads>>
       ELSE /\ FreeThreads # {}
            /\ tracking_thread' = NewThread
            /\ threads' = [threads EXCEPT ![NewThread] =
                               [pc |-> "loop", wake |-> 0, idx |-> 0, cur |-> <<>>]]
    /\ last' = Ret("start", 0, TRUE, "Tracking started")
    /\ emitted' = <<>>
    /\ UNCHANGED <<tracked_items, tracking_interval, alarm_active, missing_items,
                   latest_detections, camera_vars, now, handlers>>

\* POST /api/tracking/stop
StopRoute ==
    /\ tracking_active' = FALSE
    /\ alarm_active' = FALSE
    /\ last' = Ret("stop", 0, TRUE, "Tracking stopped")
    /\ emitted' = <<>>
    /\ UNCHANGED <<tracked_items, tracking_interval, tracking_thread, missing_items,
                   latest_detections, camera_vars, now, threads, handlers>>

\* POST /api/tracking/interval
SetIntervalRoute(new_interval) ==
    LET ok == ~(\/ ~IsInstanceInt(new_interval)
                \/ new_interval.num < MIN_TRACKING_INTERVAL
                \/ new_interval.num > MAX_TRACKING_INTERVAL)
    IN  /\ tracking_interval' = IF ok THEN new_interval.num ELSE tracking_interval
        /\ last' = Ret("interval", new_interval, ok,
                       IF ok THEN "Tracking interval set" ELSE "Interval must be between")
        /\ emitted' = <<>>
        /\ UNCHANGED <<tracked_items, tracking_active, tracking_thread, alarm_active,
                       missing_items, latest_detections, camera_vars, now, threads, handlers>>

\* POST /api/tracking/alarm/acknowledge
AcknowledgeRoute ==
    /\ tracked_items' = DisableAll(tracked_items, missing_items)
    /\ alarm_active' = FALSE
    /\ missing_items' = <<>>
    /\ last' = Ret("acknowledge", 0, TRUE, "Alarm acknowledged")
    /\ emitted' = <<Event("alarm_acknowledged", <<>>)>>
    /\ UNCHANGED <<tracking_active, tracking_interval, tracking_thread, latest_detections,
                   camera_vars, now, threads, handlers>>

\* POST /api/tracking/alarm/enable/<item_id>
EnableAlarmRoute(item_id) ==
    LET ok == HasId(tracked_items, item_id)
    IN  /\ tracked_items' = EnableFirst(tracked_items, item_id)
        /\ last' = Ret("enable", item_id, ok,
                       IF ok THEN "Alarm enabled" ELSE "Item not found")
        /\ emitted' = <<>>
        /\ UNCHANGED <<tracking_active, tracking_interval, tracking_thread, alarm_active,
                       missing_items, latest_detections, camera_vars, now, threads, handlers>>

\* The ids a client may name: those it has seen, and one that never existed.
KnownIds ==
    {tracked_items[i].id : i \in 1..Len(tracked_items)}
        \cup {missing_items[i].id : i \in 1..Len(missing_items)}
IdInputs == KnownIds \cup {UnknownId}


(***************************************************************************)
(* The monitor thread (check_tracked_items), one loop iteration per step:  *)
(* the while test, the cycle, and the start of the sleep.                  *)
(***************************************************************************)
Runnable(t) == threads[t].pc = "loop"

\* time.sleep(state.tracking_interval); a wake-up time past the end of the
\* clock is kept as the first second past it.
Asleep(end) ==
    [pc |-> "sleep", wake |-> Min(now + tracking_interval, end + 1),
     idx |-> 0, cur |-> <<>>]

\* A monitor without the except clause of line 185: the exception ends the
\* thread; C22 tells it from AfterCycle.
DiesOnError(end, raised) ==
    IF raised THEN [pc |-> "dead", wake |-> 0, idx |-> 0, cur |-> <<>>] ELSE Asleep(end)

\* Lines 185-188: the thread after the try statement, whether the body
\* raised or not.
AfterCycle(end, raised) == Asleep(end)

\* Line 92 finds tracking_active false: the thread ends.
MonitorExit(t) ==
    /\ Runnable(t)
    /\ ~tracking_active
    /\ threads' = [threads EXCEPT ![t] = [NoThread EXCEPT !.pc = "dead"]]
    /\ last' = Ret("exit", 0, TRUE, "")
    /\ emitted' = <<>>
    /\ UNCHANGED <<registry_vars, latest_detections, camera_vars, now, handlers>>

\* Lines 95-98: nothing is tracked.
MonitorSkip(t, end) ==
    /\ Runnable(t)
    /\ tracking_active
    /\ tracked_items = <<>>
    /\ threads' = [threads EXCEPT ![t] = Asleep(end)]
    /\ last' = Ret("skip", 0, TRUE, "")
    /\ emitted' = <<>>
    /\ UNCHANGED <<registry_vars, latest_detections, camera_vars, now, handlers>>

\* Lines 100-188: one reconciliation cycle.
MonitorCycle(t, end) ==
    /\ Runnable(t)
    /\ tracking_active
    /\ tracked_items # <<>>
    /\ LET r == ReconcileFrom(tracked_items, 1, <<>>, latest_detections, now,
                              tracking_interval)
           a == AlarmEdge(r.missing, alarm_active)
       IN  /\ tracked_items' = r.items
           /\ IF r.raised
              THEN /\ UNCHANGED <<missing_items, alarm_active>>
                   /\ emitted' = <<>>
                   /\ last' = Ret("cycle", 0, FALSE, "Error checking tracked items")
              ELSE /\ missing_items' = r.missing
                   /\ alarm_active' = a.active
                   /\ emitted' = a.events
                   /\ last' = Ret("cycle", 0, TRUE, "")
           /\ threads' = [threads EXCEPT ![t] = AfterCycle(end, r.raised)]
    /\ UNCHANGED <<tracking_active, tracking_interval, tracking_thread, latest_detections,
                   camera_vars, now, handlers>>

(***************************************************************************)
(* The camera (socket_handlers.py, camera_routes.py) and the detector      *)
(* (ml_service.py).                                                        *)
(***************************************************************************)
CameraClearedEvents ==
    IF alarm_active THEN <<Event("alarm_cleared", <<>>)>> ELSE <<>>

\* reset_tracking_state()
ResetTrackingState ==
    /\ tracking_active' = FALSE
    /\ alarm_active' = FALSE
    /\ missing_items' = <<>>

\* socket event camera_connect
CameraConnect ==
    /\ camera_connected' = TRUE
    /\ last' = Ret("camera_connect", 0, TRUE, "")
    /\ emitted' = <<>>
    /\ UNCHANGED <<registry_vars, latest_detections, camera_streaming,
                   auto_detection_active, now, threads, handlers>>

\* socket event camera_ready
CameraReady ==
    /\ camera_connected' = TRUE
    /\ camera_streaming' = TRUE
    /\ auto_detection_active' = TRUE
    /\ last' = Ret("camera_ready", 0, TRUE, "")
    /\ emitted' = <<>>
    /\ UNCHANGED <<registry_vars, latest_detections, now, threads, handlers>>

\* socket event camera_stopped
CameraStopped ==
    /\ emitted' = CameraClearedEvents
    /\ camera_streaming' = FALSE
    /\ auto_detection_active' = FALSE
    /\ ResetTrackingState
    /\ last' = Ret("camera_stopped", 0, TRUE, "")
    /\ UNCHANGED <<tracked_items, tracking_interval, tracking_thread, latest_detections,
                   camera_connected, now, threads, handlers>>

\* socket event camera_disconnect
CameraDisconnect ==
    /\ emitted' = CameraClearedEvents
    /\ camera_connected' = FALSE
    /\ camera_streaming' = FALSE
    /\ auto_detection_active' = FALSE
    /\ ResetTrackingState
    /\ last' = Ret("camera_disconnect", 0, TRUE, "")
    /\ UNCHANGED <<tracked_items, tracking_interval, tracking_thread, latest_detections,
                   now, threads, handlers>>

\* POST /api/camera/stop with a camera connected
StopCameraRoute ==
    /\ camera_connected
    /\ auto_detection_active' = FALSE
    /\ emitted' = CameraClearedEvents
    /\ ResetTrackingState
    /\ last' = Ret("camera_stop", 0, TRUE, "Camera stop command sent")
    /\ UNCHANGED <<tracked_items, tracking_interval, tracking_thread, latest_detections,
                   camera_connected, camera_streaming, now, threads, handlers>>

\* auto_detect_objects, lines 85-100: a fetch that succeeds replaces the batch.
AutoDetect(batch) ==
    /\ auto_detection_active /\ camera_streaming
    /\ latest_detections' = batch
    /\ emitted' = <<>>
    /\ UNCHANGED <<registry_vars, camera_vars, now, threads, handlers, last>>

\* A second passes; the threads whose sleep ends are back at the while test.
Tick(end) ==
    /\ now < end
    /\ now' = now + 1
    /\ threads' = [t \in ThreadIds |->
                       IF threads[t].pc = "sleep" /\ threads[t].wake <= now + 1
                       THEN [threads[t] EXCEPT !.pc = "loop", !.wake = 0]
                       ELSE threads[t]]
    /\ emitted' = <<>>
    /\ UNCHANGED <<registry_vars, latest_detections, camera_vars, handlers, last>>

\* The clock shows its last second and time goes on: the sleeping threads
\* are back at the while test, the clock keeps its value.
TickStalled(end) ==
    /\ now = end
    /\ \E t \in ThreadIds : threads[t].pc = "sleep"
    /\ threads' = [t \in ThreadIds |->
                       IF threads[t].pc = "sleep"
                       THEN [threads[t] EXCEPT !.pc = "loop", !.wake = 0]
                       ELSE threads[t]]
    /\ emitted' = <<>>
    /\ UNCHANGED <<registry_vars, latest_detections, camera_vars, now, handlers, last>>

(***************************************************************************)
(* The whole system, every request and every monitor iteration one step,   *)
(* with at most MaxItems tracked items.                                    *)
(***************************************************************************)
Next ==
    \/ \E d \in AddInputs : AddRoute(d) /\ Len(tracked_items') <= MaxItems
    \/ \E id \in IdInputs : RemoveRoute(id)
    \/ ClearRoute
    \/ StartRejected
    \/ StartAccepted
    \/ StopRoute
    \/ \E n \in IntervalInputs : SetIntervalRoute(n)
    \/ AcknowledgeRoute
    \/ \E id \in IdInputs : EnableAlarmRoute(id)
    \/ \E t \in ThreadIds : MonitorExit(t)
    \/ \E t \in ThreadIds : MonitorSkip(t, MaxTime)
    \/ \E t \in ThreadIds : MonitorCycle(t, MaxTime)
    \/ CameraConnect
    \/ CameraReady
    \/ CameraStopped
    \/ CameraDisconnect
    \/ StopCameraRoute
    \/ \E b \in Batches : AutoDetect(b)
    \/ Tick(MaxTime)

Spec == Init /\ [][Next]_vars

(***************************************************************************)
(* The tracking engine with up to ManyItems tracked items and a camera     *)
(* that keeps streaming.                                                   *)
(***************************************************************************)
ManyNext ==
    \/ \E d \in AddInputs : AddRoute(d) /\ Len(tracked_items') <= ManyItems
    \/ \E id \in IdInputs : RemoveRoute(id)
    \/ ClearRoute
    \/ StartRejected
    \/ StartAccepted
    \/ StopRoute
    \/ \E n \in IntervalInputs : SetIntervalRoute(n)
    \/ AcknowledgeRoute
    \/ \E id \in IdInputs : EnableAlarmRoute(id)
    \/ \E t \in ThreadIds : MonitorExit(t)
    \/ \E t \in ThreadIds : MonitorSkip(t, ShortTime)
    \/ \E t \in ThreadIds : MonitorCycle(t, ShortTime)
    \/ CameraReady
    \/ \E b \in Batches : AutoDetect(b)
    \/ Tick(ShortTime)

ManySpec == Init /\ [][ManyNext]_vars

(***************************************************************************)
(* The registry alone: add, remove and clear requests and the clock.       *)
(***************************************************************************)
RegistryNext ==
    \/ \E d \in RegistryAddInputs : AddRoute(d) /\ Len(tracked_items') <= ManyItems
    \/ \E id \in IdInputs : RemoveRoute(id)
    \/ ClearRoute
    \/ Tick(RegistryTime)

RegistrySpec == Init /\ [][RegistryNext]_vars

(***************************************************************************)
(* The monitor thread and the start, stop and clear requests statement by  *)
(* statement: the interpreter may switch threads between any two           *)
(* statements.  The body of the for loop for one item is one step.         *)
(***************************************************************************)
Return(h, op, ok, msg) ==
    /\ handlers' = [handlers EXCEPT ![h] = Idle]
    /\ last' = Ret(op, 0, ok, msg)

Goto(h, op, pc) ==
    /\ handlers' = [handlers EXCEPT ![h] = [op |-> op, pc |-> pc]]
    /\ UNCHANGED last

At(h, pc) == handlers[h].pc = pc

\* start_tracking, line 194
Start194(h) ==
    /\ At(h, "idle")
    /\ IF tracked_items = <<>>
       THEN Return(h, "start", FALSE, "No items to track")
       ELSE Goto(h, "start", "s197")
    /\ emitted' = <<>>
    /\ UNCHANGED <<registry_vars, latest_detections, camera_vars, now, threads>>

\* line 197
Start197(h) ==
    /\ At(h, "s197")
    /\ IF tracking_active
       THEN Return(h, "start", FALSE, "Tracking already active")
       ELSE Goto(h, "start", "s200")
    /\ emitted' = <<>>
    /\ UNCHANGED <<registry_vars, latest_detections, camera_vars, now, threads>>

\* line 200
Start200(h) ==
    /\ At(h, "s200")
    /\ tracking_active' = TRUE
    /\ Goto(h, "start", "s203")
    /\ emitted' = <<>>
    /\ UNCHANGED <<tracked_items, tracking_interval, tracking_thread, alarm_active,
                   missing_items, latest_detections, camera_vars, now, threads>>

\* line 203
Start203(h) ==
    /\ At(h, "s203")
    /\ IF IsAlive(tracking_thread)
       THEN Return(h, "start", TRUE, "Tracking started")
       ELSE Goto(h, "start", "s204")
    /\ emitted' = <<>>
    /\ UNCHANGED <<registry_vars, latest_detections, camera_vars, now, threads>>

\* lines 204-208: a Thread object is made and bound to state.tracking_thread
Start204(h) ==
    /\ At(h, "s204")
    /\ FreeThreads # {}
    /\ tracking_thread' = NewThread
    /\ threads' = [threads EXCEPT ![NewThread] = [NoThread EXCEPT !.pc = "created"]]
    /\ Goto(h, "start", "s209")
    /\ emitted' = <<>>
    /\ UNCHANGED <<tracked_items, tracking_active, tracking_interval, alarm_active,
                   missing_items, latest_detections, camera_vars, now>>

\* line 209: state.tracking_thread.start(), a RuntimeError when that thread
\* was started before
Start209(h) ==
    /\ At(h, "s209")
    /\ IF threads[tracking_thread].pc = "created"
       THEN /\ threads' = [threads EXCEPT ![tracking_thread].pc = "loop"]
            /\ Return(h, "start", TRUE, "Tracking started")
       ELSE /\ UNCHANGED threads
            /\ Return(h, "start", FALSE, "RuntimeError")
    /\ emitted' = <<>>
    /\ UNCHANGED <<registry_vars, latest_detections, camera_vars, now>>

\* stop_tracking, line 215
Stop215(h) ==
    /\ At(h, "idle")
    /\ tracking_active' = FALSE
    /\ Goto(h, "stop", "p216")
    /\ emitted' = <<>>
    /\ UNCHANGED <<tracked_items, tracking_interval, tracking_thread, alarm_active,
                   missing_items, latest_detections, camera_vars, now, threads>>

\* line 216, and the route returns
Stop216(h) ==
    /\ At(h, "p216")
    /\ alarm_active' = FALSE
    /\ Return(h, "stop", TRUE, "Tracking stopped")
    /\ emitted' = <<>>
    /\ UNCHANGED <<tracked_items, tracking_active, tracking_interval, tracking_thread,
                   missing_items, latest_detections, camera_vars, now, threads>>

\* clear_tracking, line 52
Clear52(h) ==
    /\ At(h, "idle")
    /\ tracked_items' = <<>>
    /\ Goto(h, "clear", "c53")
    /\ emitted' = <<>>
    /\ UNCHANGED <<tracking_active, tracking_interval, tracking_thread, alarm_active,
                   missing_items, latest_detections, camera_vars, now, threads>>

\* line 53
Clear53(h) ==
    /\ At(h, "c53")
    /\ tracking_active' = FALSE
    /\ Goto(h, "clear", "c54")
    /\ emitted' = <<>>
    /\ UNCHANGED <<tracked_items, tracking_interval, tracking_thread, alarm_active,
                   missing_items, latest_detections, camera_vars, now, threads>>

\* line 54
Clear54(h) ==
    /\ At(h, "c54")
    /\ alarm_active' = FALSE
    /\ Goto(h, "clear", "c81")
    /\ emitted' = <<>>
    /\ UNCHANGED <<tracked_items, tracking_active, tracking_interval, tracking_thread,
                   missing_items, latest_detections, camera_vars, now, threads>>

\* tracking_routes.py line 81: the refresh, and the route returns
Clear81(h) ==
    /\ At(h, "c81")
    /\ emitted' = RefreshEvents(latest_detections)
    /\ Return(h, "clear", TRUE, "All tracked items cleared")
    /\ UNCHANGED <<registry_vars, latest_detections, camera_vars, now, threads>>

\* check_tracked_items, line 92: the while test
MonitorTest(t) ==
    /\ threads[t].pc = "loop"
    /\ threads' = [threads EXCEPT ![t].pc = IF tracking_active THEN "check" ELSE "exiting"]
    /\ emitted' = <<>>
    /\ UNCHANGED <<registry_vars, latest_detections, camera_vars, now, handlers, last>>

\* line 190: the thread function returns
MonitorReturn(t) ==
    /\ threads[t].pc = "exiting"
    /\ threads' = [threads EXCEPT ![t].pc = "dead"]
    /\ last' = Ret("exit", 0, TRUE, "")
    /\ emitted' = <<>>
    /\ UNCHANGED <<registry_vars, latest_detections, camera_vars, now, handlers>>

\* lines 95-104: nothing tracked, or the for loop begins
MonitorCheck(t, end) ==
    /\ threads[t].pc = "check"
    /\ IF tracked_items = <<>>
       THEN /\ threads' = [threads EXCEPT ![t] = Asleep(end)]
            /\ last' = Ret("skip", 0, TRUE, "")
       ELSE /\ threads' = [threads EXCEPT ![t].pc = "iter", ![t].idx = 1, ![t].cur = <<>>]
            /\ UNCHANGED last
    /\ emitted' = <<>>
    /\ UNCHANGED <<registry_vars, latest_detections, camera_vars, now, handlers>>

\* lines 105-165: the list iterator yields the next item of the live list
\* and the body runs for it, or raises and the thread sleeps (lines 185-188),
\* or the list is exhausted
MonitorItem(t, end) ==
    /\ threads[t].pc = "iter"
    /\ IF threads[t].idx > Len(tracked_items)
       THEN /\ threads' = [threads EXCEPT ![t].pc = "publish", ![t].idx = 0]
            /\ UNCHANGED tracked_items
       ELSE IF ItemRaises(tracked_items[threads[t].idx], latest_detections)
       THEN /\ threads' = [threads EXCEPT ![t] = AfterCycle(end, TRUE)]
            /\ UNCHANGED tracked_items
       ELSE LET i == threads[t].idx
                r == ReconcileItem(tracked_items[i], latest_detections, now,
                                   tracking_interval)
            IN  /\ tracked_items' = [tracked_items EXCEPT ![i] = r.item]
                /\ threads' = [threads EXCEPT
                                  ![t].idx = i + 1,
                                  ![t].cur = IF r.missing THEN Append(@, RefTo(r.item))
                                             ELSE @]
    /\ emitted' = <<>>
    /\ UNCHANGED <<tracking_active, tracking_interval, tracking_thread, alarm_active,
                   missing_items, latest_detections, camera_vars, now, handlers, last>>

\* line 168
MonitorPublish(t) ==
    /\ threads[t].pc = "publish"
    /\ missing_items' = threads[t].cur
    /\ threads' = [threads EXCEPT ![t].pc = "alarm", ![t].cur = <<>>]
    /\ emitted' = <<>>
    /\ UNCHANGED <<tracked_items, tracking_active, tracking_interval, tracking_thread,
                   alarm_active, latest_detections, camera_vars, now, handlers, last>>

\* lines 171-188: the alarm edge, and the sleep begins
MonitorAlarm(t, end) ==
    /\ threads[t].pc = "alarm"
    /\ LET a == AlarmEdge(missing_items, alarm_active)
       IN  /\ alarm_active' = a.active
           /\ emitted' = a.events
    /\ threads' = [threads EXCEPT ![t] = Asleep(end)]
    /\ last' = Ret("cycle", 0, TRUE, "")
    /\ UNCHANGED <<tracked_items, tracking_active, tracking_interval, tracking_thread,
                   missing_items, latest_detections, camera_vars, now, handlers>>

\* The one detection a client adds and the one interval it sets.
RaceAddInputs == {CupA}
RaceIntervalInputs == {JInt(1)}

\* Two handlers run start, stop and clear requests against each other and
\* against the monitor threads.
StartRaceNext ==
    \/ \E d \in RaceAddInputs : AddRoute(d) /\ Len(tracked_items') <= MaxItems
    \/ \E h \in HandlerIds : Start194(h)
    \/ \E h \in HandlerIds : Start197(h)
    \/ \E h \in HandlerIds : Start200(h)
    \/ \E h \in HandlerIds : Start203(h)
    \/ \E h \in HandlerIds : Start204(h)
    \/ \E h \in HandlerIds : Start209(h)
    \/ \E h \in HandlerIds : Stop215(h)
    \/ \E h \in HandlerIds : Stop216(h)
    \/ \E h \in HandlerIds : Clear52(h)
    \/ \E h \in HandlerIds : Clear53(h)
    \/ \E h \in HandlerIds : Clear54(h)
    \/ \E h \in HandlerIds : Clear81(h)
    \/ \E t \in ThreadIds : MonitorTest(t)
    \/ \E t \in ThreadIds : MonitorReturn(t)
    \/ \E t \in ThreadIds : MonitorCheck(t, RaceTime)
    \/ \E t \in ThreadIds : MonitorItem(t, RaceTime)
    \/ \E t \in ThreadIds : MonitorPublish(t)
    \/ \E t \in ThreadIds : MonitorAlarm(t, RaceTime)
    \/ Tick(RaceTime)

StartRaceSpec == Init /\ [][StartRaceNext]_vars

\* One handler runs clear requests against the monitor thread, the other
\* requests being served one at a time.
ClearRaceNext ==
    \/ \E d \in RaceAddInputs : AddRoute(d) /\ Len(tracked_items') <= MaxItems
    \/ \E n \in RaceIntervalInputs : SetIntervalRoute(n)
    \/ StartRejected
    \/ StartAccepted
    \/ StopRoute
    \/ \E h \in {1} : Clear52(h)
    \/ \E h \in {1} : Clear53(h)
    \/ \E h \in {1} : Clear54(h)
    \/ \E h \in {1} : Clear81(h)
    \/ \E t \in ThreadIds : MonitorTest(t)
    \/ \E t \in ThreadIds : MonitorReturn(t)
    \/ \E t \in ThreadIds : MonitorCheck(t, ShortTime)
    \/ \E t \in ThreadIds : MonitorItem(t, ShortTime)
    \/ \E t \in ThreadIds : MonitorPublish(t)
    \/ \E t \in ThreadIds : MonitorAlarm(t, ShortTime)
    \/ Tick(ShortTime)

ClearRaceSpec == Init /\ [][ClearRaceNext]_vars

\* Remove requests, each one statement, against the monitor thread
\* statement by statement.
RemoveRaceNext ==
    \/ \E d \in RaceAddInputs : AddRoute(d) /\ Len(tracked_items') <= MaxItems
    \/ \E id \in IdInputs : RemoveRoute(id)
    \/ \E n \in RaceIntervalInputs : SetIntervalRoute(n)
    \/ StartRejected
    \/ StartAccepted
    \/ StopRoute
    \/ \E t \in ThreadIds : MonitorTest(t)
    \/ \E t \in ThreadIds : MonitorReturn(t)
    \/ \E t \in ThreadIds : MonitorCheck(t, ShortTime)
    \/ \E t \in ThreadIds : MonitorItem(t, ShortTime)
    \/ \E t \in ThreadIds : MonitorPublish(t)
    \/ \E t \in ThreadIds : MonitorAlarm(t, ShortTime)
    \/ Tick(ShortTime)

RemoveRaceSpec == Init /\ [][RemoveRaceNext]_vars

(***************************************************************************)
(* add_to_tracking statement by statement: the duplicate test (lines       *)
(* 21-27), the construction of the dict (30-41) and the append (43) are    *)
(* separate statements, and nothing excludes another request between them. *)
(***************************************************************************)
AddRaceInputs == {CupA, PenD}

\* lines 21-27: the duplicate test
Add21(h, detection) ==
    /\ At(h, "idle")
    /\ IF DedupRaises(tracked_items, detection.label, detection.class_id,
                      detection.bbox, DedupProximity)
       THEN Return(h, "add", FALSE, "Internal Server Error")
       ELSE IF is_object_already_tracked(tracked_items, detection.label,
                                         detection.class_id, detection.bbox,
                                         DedupProximity)
       THEN Return(h, "add", FALSE, "Object is already being tracked")
       ELSE /\ handlers' = [handlers EXCEPT
                               ![h] = [op |-> "add", pc |-> "a30", detection |-> detection]]
            /\ UNCHANGED last
    /\ emitted' = <<>>
    /\ UNCHANGED <<registry_vars, latest_detections, camera_vars, now, threads>>

\* lines 30-41: the dict, with the id computed from the registry as it is now
Add30(h) ==
    /\ At(h, "a30")
    /\ handlers' = [handlers EXCEPT
                       ![h] = [op |-> "add", pc |-> "a43",
                               detection |-> handlers[h].detection,
                               id |-> NewId(tracked_items, now)]]
    /\ emitted' = <<>>
    /\ UNCHANGED <<registry_vars, latest_detections, camera_vars, now, threads, last>>

\* line 43 and the rest of the route (tracking_routes.py 31-38)
Add43(h) ==
    /\ At(h, "a43")
    /\ tracked_items' =
           Append(tracked_items,
                  [NewItem(tracked_items, handlers[h].detection, handlers[h].id[2])
                       EXCEPT !.id = handlers[h].id])
    /\ Return(h, "add", TRUE, "Object added to tracking")
    /\ emitted' = RefreshEvents(latest_detections)
    /\ UNCHANGED <<tracking_active, tracking_interval, tracking_thread, alarm_active,
                   missing_items, latest_detections, camera_vars, now, threads>>

AddRaceNext ==
    \/ \E h \in HandlerIds : \E d \in AddRaceInputs : Add21(h, d)
    \/ \E h \in HandlerIds : Add30(h)
    \/ \E h \in HandlerIds : Add43(h) /\ Len(tracked_items') <= ManyItems
    \/ \E id \in IdInputs : RemoveRoute(id)
    \/ Tick(RaceTime)

AddRaceSpec == Init /\ [][AddRaceNext]_vars

\* Acknowledge and enable requests, each one step, against the monitor
\* thread statement by statement, with a clock that reaches the cycle after
\* the one that raises the alarm.
AckRaceNext ==
    \/ \E d \in RaceAddInputs : AddRoute(d) /\ Len(tracked_items') <= MaxItems
    \/ \E n \in RaceIntervalInputs : SetIntervalRoute(n)
    \/ StartRejected
    \/ StartAccepted
    \/ StopRoute
    \/ AcknowledgeRoute
    \/ \E id \in IdInputs : EnableAlarmRoute(id)
    \/ \E t \in ThreadIds : MonitorTest(t)
    \/ \E t \in ThreadIds : MonitorReturn(t)
    \/ \E t \in ThreadIds : MonitorCheck(t, MaxTime)
    \/ \E t \in ThreadIds : MonitorItem(t, MaxTime)
    \/ \E t \in ThreadIds : MonitorPublish(t)
    \/ \E t \in ThreadIds : MonitorAlarm(t, MaxTime)
    \/ Tick(MaxTime)

AckRaceSpec == Init /\ [][AckRaceNext]_vars

(***************************************************************************)
(* The round trip from the detector to the registry and back: the client   *)
(* adds detections of the current batch, and every batch the detector      *)
(* reports afterwards still holds the detection of every tracked item,     *)
(* unchanged.                                                              *)
(***************************************************************************)
RoundTripDetections == {CupA, CupC, PenEmpty}
RoundTripBatches == SeqsUpTo(RoundTripDetections, ManyItems)

\* The batch holds the detection the item was made from (add_to_tracking,
\* lines 30-41), with a confidence above the tracking threshold.
StillDetected(tracked_item, batch) ==
    \E k \in 1..Len(batch) :
        /\ batch[k].label = tracked_item.label
        /\ batch[k].class_id = tracked_item.class_id
        /\ batch[k].bbox = tracked_item.bbox
        /\ batch[k].confidence > TrackingThresholdPct

RoundTripNext ==
    \/ CameraReady
    \/ \E b \in RoundTripBatches :
          /\ \A i \in 1..Len(tracked_items) : StillDetected(tracked_items[i], b)
          /\ AutoDetect(b)
    \/ \E k \in 1..Len(latest_detections) :
          AddRoute(latest_detections[k]) /\ Len(tracked_items') <= ManyItems
    \/ \E n \in RaceIntervalInputs : SetIntervalRoute(n)
    \/ StartRejected
    \/ StartAccepted
    \/ StopRoute
    \/ \E t \in ThreadIds : MonitorExit(t)
    \/ \E t \in ThreadIds : MonitorCycle(t, ShortTime)
    \/ Tick(ShortTime)

RoundTripSpec == Init /\ [][RoundTripNext]_vars

(***************************************************************************)
(* The tracking engine with one item under fair scheduling: time goes on   *)
(* and a monitor thread that can take a step takes it.                     *)
(***************************************************************************)
MonitorStep(t) ==
    \/ MonitorExit(t)
    \/ MonitorSkip(t, ShortTime)
    \/ MonitorCycle(t, ShortTime)

TimePasses == Tick(ShortTime) \/ TickStalled(ShortTime)

FairNext ==
    \/ \E d \in RaceAddInputs : AddRoute(d) /\ Len(tracked_items') <= MaxItems
    \/ \E id \in IdInputs : RemoveRoute(id)
    \/ ClearRoute
    \/ StartRejected
    \/ StartAccepted
    \/ StopRoute
    \/ \E n \in RaceIntervalInputs : SetIntervalRoute(n)
    \/ AcknowledgeRoute
    \/ \E id \in IdInputs : EnableAlarmRoute(id)
    \/ CameraReady
    \/ \E b \in Batches : AutoDetect(b)
    \/ \E t \in ThreadIds : MonitorStep(t)
    \/ TimePasses

FairSpec ==
    /\ Init
    /\ [][FairNext]_vars
    /\ WF_vars(TimePasses)
    /\ \A t \in ThreadIds : WF_vars(MonitorStep(t))

(***************************************************************************)
(* The tracking engine with one item over the default grace period: the    *)
(* interval is 5 s or 1 s and the clock runs past twice the interval.      *)
(***************************************************************************)
GraceNext ==
    \/ \E d \in RaceAddInputs : AddRoute(d) /\ Len(tracked_items') <= MaxItems
    \/ \E id \in IdInputs : RemoveRoute(id)
    \/ StartRejected
    \/ StartAccepted
    \/ StopRoute
    \/ \E n \in RaceIntervalInputs : SetIntervalRoute(n)
    \/ CameraReady
    \/ \E b \in Batches : AutoDetect(b)
    \/ \E t \in ThreadIds : MonitorExit(t)
    \/ \E t \in ThreadIds : MonitorSkip(t, GraceTime)
    \/ \E t \in ThreadIds : MonitorCycle(t, GraceTime)
    \/ Tick(GraceTime)

GraceSpec == Init /\ [][GraceNext]_vars

\* The interval route with every kind of JSON value, next to a monitor that
\* sleeps by the interval.
IntervalNext ==
    \/ \E d \in RaceAddInputs : AddRoute(d) /\ Len(tracked_items') <= MaxItems
    \/ \E id \in IdInputs : RemoveRoute(id)
    \/ StartRejected
    \/ StartAccepted
    \/ StopRoute
    \/ \E n \in JsonIntervalInputs : SetIntervalRoute(n)
    \/ \E t \in ThreadIds : MonitorExit(t)
    \/ \E t \in ThreadIds : MonitorSkip(t, RaceTime)
    \/ \E t \in ThreadIds : MonitorCycle(t, RaceTime)
    \/ Tick(RaceTime)

IntervalSpec == Init /\ [][IntervalNext]_vars

\* Two objects of different labels, of which the detector reports one: the
\* monitor finds one item and misses the other.
AckAddInputs == {CupA, PenD}

AckNext ==
    \/ \E d \in AckAddInputs : AddRoute(d) /\ Len(tracked_items') <= ManyItems
    \/ \E id \in IdInputs : RemoveRoute(id)
    \/ StartRejected
    \/ StartAccepted
    \/ StopRoute
    \/ \E n \in RaceIntervalInputs : SetIntervalRoute(n)
    \/ AcknowledgeRoute
    \/ \E id \in IdInputs : EnableAlarmRoute(id)
    \/ \E t \in ThreadIds : MonitorExit(t)
    \/ \E t \in ThreadIds : MonitorSkip(t, ShortTime)
    \/ \E t \in ThreadIds : MonitorCycle(t, ShortTime)
    \/ CameraReady
    \/ \E b \in Batches : AutoDetect(b)
    \/ Tick(ShortTime)

AckSpec == Init /\ [][AckNext]_vars

\* What detect_objects returns: None when the request to the detector
\* fails, and the list of detections otherwise.
NoResult == [ok |-> FALSE, detections |-> <<>>]
Result(batch) == [ok |-> TRUE, detections |-> batch]
FetchResults == {NoResult} \cup {Result(b) : b \in Batches}

\* One iteration of auto_detect_objects, lines 80-113, with the outcome of
\* the fetch on record: latest_detections is assigned only when
\* detect_objects returned a list.
AutoDetectIteration(result) ==
    /\ auto_detection_active /\ camera_streaming
    /\ latest_detections' = IF result.ok THEN result.detections ELSE latest_detections
    /\ last' = Ret("detect", 0, result.ok, "")
    /\ emitted' = <<>>
    /\ UNCHANGED <<registry_vars, camera_vars, now, threads, handlers>>

\* The monitor next to a detector whose fetches may fail.
FeedNext ==
    \/ \E d \in RaceAddInputs : AddRoute(d) /\ Len(tracked_items') <= MaxItems
    \/ \E id \in IdInputs : RemoveRoute(id)
    \/ StartRejected
    \/ StartAccepted
    \/ StopRoute
    \/ \E n \in RaceIntervalInputs : SetIntervalRoute(n)
    \/ CameraReady
    \/ \E result \in FetchResults : AutoDetectIteration(result)
    \/ \E t \in ThreadIds : MonitorExit(t)
    \/ \E t \in ThreadIds : MonitorSkip(t, ShortTime)
    \/ \E t \in ThreadIds : MonitorCycle(t, ShortTime)
    \/ Tick(ShortTime)

FeedSpec == Init /\ [][FeedNext]_vars

\* A client adds an object whose bbox is no dict, next to a well-formed one
\* of another label; the detector reports a cup.
ErrorAddInputs == {CupStr, PenD}

ErrorNext ==
    \/ \E d \in ErrorAddInputs : AddRoute(d) /\ Len(tracked_items') <= ManyItems
    \/ \E id \in IdInputs : RemoveRoute(id)
    \/ StartRejected
    \/ StartAccepted
    \/ StopRoute
    \/ \E n \in RaceIntervalInputs : SetIntervalRoute(n)
    \/ AcknowledgeRoute
    \/ CameraReady
    \/ \E b \in Batches : AutoDetect(b)
    \/ \E t \in ThreadIds : MonitorExit(t)
    \/ \E t \in ThreadIds : MonitorSkip(t, ShortTime)
    \/ \E t \in ThreadIds : MonitorCycle(t, ShortTime)
    \/ Tick(ShortTime)

ErrorSpec == Init /\ [][ErrorNext]_vars

(***************************************************************************)
(* GET /api/tracking/status statement by statement: get_tracking_status    *)
(* builds its dict entry by entry, the interpreter may switch threads      *)
(* between two entries, and jsonify serialises the lists afterwards.       *)
(***************************************************************************)
NoSnapshot ==
    [tracked_items |-> <<>>, tracking_active |-> FALSE, tracking_interval |-> 0,
     alarm_active |-> FALSE, missing_items |-> <<>>]

\* state.py line 54: the entry 'tracked_items' refers to the list itself.
StatusCall(h) ==
    /\ At(h, "idle")
    /\ handlers' = [handlers EXCEPT
                       ![h] = [op |-> "status", pc |-> "tracking_active",
                               snap |-> NoSnapshot]]
    /\ emitted' = <<>>
    /\ UNCHANGED <<registry_vars, latest_detections, camera_vars, now, threads, last>>

\* state.py lines 55-58: one entry is evaluated.  The entry 'missing_items'
\* refers to the list that state.missing_items names now; the monitor and
\* acknowledge_alarm assign new lists to the name.
StatusRead(h) ==
    /\ handlers[h].op = "status"
    /\ \/ /\ At(h, "tracking_active")
          /\ handlers' = [handlers EXCEPT ![h].snap.tracking_active = tracking_active,
                                          ![h].pc = "tracking_interval"]
       \/ /\ At(h, "tracking_interval")
          /\ handlers' = [handlers EXCEPT ![h].snap.tracking_interval = tracking_interval,
                                          ![h].pc = "alarm_active"]
       \/ /\ At(h, "alarm_active")
          /\ handlers' = [handlers EXCEPT ![h].snap.alarm_active = alarm_active,
                                          ![h].pc = "missing_items"]
       \/ /\ At(h, "missing_items")
          /\ handlers' = [handlers EXCEPT ![h].snap.missing_items = missing_items,
                                          ![h].pc = "jsonify"]
    /\ emitted' = <<>>
    /\ UNCHANGED <<registry_vars, latest_detections, camera_vars, now, threads, last>>

\* tracking_routes.py line 73: jsonify serialises the dict, the list of
\* tracked items as it is by now.
StatusJsonify(h) ==
    /\ handlers[h].op = "status"
    /\ At(h, "jsonify")
    /\ handlers' = [handlers EXCEPT ![h] = Idle]
    /\ last' = Ret("status", 0, TRUE,
                   [handlers[h].snap EXCEPT !.tracked_items = tracked_items])
    /\ emitted' = <<>>
    /\ UNCHANGED <<registry_vars, latest_detections, camera_vars, now, threads>>

\* A status request next to the monitor and to the requests that raise and
\* acknowledge the alarm; there is no detector, and tracking is not stopped.
StatusNext ==
    \/ \E d \in RaceAddInputs : AddRoute(d) /\ Len(tracked_items') <= MaxItems
    \/ StartRejected
    \/ StartAccepted
    \/ \E n \in RaceIntervalInputs : SetIntervalRoute(n)
    \/ AcknowledgeRoute
    \/ \E id \in IdInputs : EnableAlarmRoute(id)
    \/ \E t \in ThreadIds : MonitorCycle(t, ShortTime)
    \/ Tick(ShortTime)
    \/ \E h \in HandlerIds : StatusCall(h)
    \/ \E h \in HandlerIds : StatusRead(h)
    \/ \E h \in HandlerIds : StatusJsonify(h)

StatusSpec == Init /\ [][StatusNext]_vars

(***************************************************************************)
(* The two geometry functions of state.py alone: a pair of bboxes is       *)
(* drawn, and the functions are applied to it.                             *)
(***************************************************************************)
GeoValues == {0, 5, 10}
GeoBoxes ==
    {NoBox, EmptyBox}
        \cup {Box(x, y, w, h) : x \in GeoValues, y \in GeoValues,
                                w \in GeoValues, h \in GeoValues}

GeometryInit ==
    /\ tracked_items = <<>>
    /\ tracking_active = FALSE
    /\ tracking_interval = DEFAULT_TRACKING_INTERVAL
    /\ tracking_thread = 0
    /\ alarm_active = FALSE
    /\ missing_items = <<>>
    /\ latest_detections = <<>>
    /\ camera_connected = FALSE
    /\ camera_streaming = FALSE
    /\ auto_detection_active = FALSE
    /\ now = 0
    /\ threads = [t \in ThreadIds |-> NoThread]
    /\ handlers = [h \in HandlerIds |-> Idle]
    /\ \E bbox1 \in GeoBoxes : \E bbox2 \in GeoBoxes :
          last = Ret("bboxes", <<bbox1, bbox2>>, TRUE, "")
    /\ emitted = <<>>

\* calculate_bbox_distance(bbox1, bbox2) and
\* calculate_bbox_overlap_ratio(bbox1, bbox2) return.
ApplyGeometry ==
    /\ last.op = "bboxes"
    /\ last' = Ret("geometry", last.arg, TRUE,
                   [distance |-> calculate_bbox_distance(last.arg[1], last.arg[2]),
                    overlap |-> calculate_bbox_overlap_ratio(last.arg[1], last.arg[2])])
    /\ UNCHANGED <<registry_vars, latest_detections, camera_vars, now, threads,
                   handlers, emitted>>

GeometryNext == ApplyGeometry

GeometrySpec == GeometryInit /\ [][GeometryNext]_vars

\* The detector reports up to two cups out of five, in either order: one
\* at the item, two near it (one of another class_id), one far and wide,
\* and one at the item with too little confidence.
ReidDetections == {CupA, CupB, CupC, CupW, CupFaint}
ReidBatch == 2
ReidBatches == SeqsUpTo(ReidDetections, ReidBatch)

ReidNext ==
    \/ \E d \in RaceAddInputs : AddRoute(d) /\ Len(tracked_items') <= MaxItems
    \/ \E id \in IdInputs : RemoveRoute(id)
    \/ StartRejected
    \/ StartAccepted
    \/ StopRoute
    \/ CameraReady
    \/ \E b \in ReidBatches : AutoDetect(b)
    \/ \E t \in ThreadIds : MonitorExit(t)
    \/ \E t \in ThreadIds : MonitorSkip(t, RaceTime)
    \/ \E t \in ThreadIds : MonitorCycle(t, RaceTime)
    \/ Tick(RaceTime)

ReidSpec == Init /\ [][ReidNext]_vars

(***************************************************************************)
(* Vocabulary of the properties.                                           *)
(***************************************************************************)
Items == 1..Len(tracked_items)

\* The step is one reconciliation cycle of a monitor thread.
IsCycleStep ==
    \E t \in ThreadIds :
        threads[t].pc = "loop" /\ threads'[t].pc = "sleep" /\ tracked_items # <<>>

\* The step is a request to the named route that returned.
IsRequest(op) == last'.op = op /\ last' # last

\* The step emits the named event.
EmitsNext(name) == \E k \in 1..Len(emitted') : emitted'[k].name = name

\* The event was emitted by the last step.
Emitted(name) == \E k \in 1..Len(emitted) : emitted[k].name = name

\* No detection of the current batch passes the re-identify tests for the item.
NoCandidate(tracked_item) ==
    \A k \in 1..Len(latest_detections) : ~IsCandidate(tracked_item, latest_detections[k])

\* The item is referred to by missing_items.
InMissing(tracked_item) ==
    \E k \in 1..Len(missing_items) : missing_items[k].ref = tracked_item.ref

(***************************************************************************)
(* C1.  Dedup idempotence: when add(d1) has succeeded and the next request *)
(* is add(d2), d2 having d1's label and class_id and a bbox at distance    *)
(* <= 25 from d1's or overlapping it by more than 0.3, add(d2) is          *)
(* rejected and leaves the registry as it was, with d1's item in it.       *)
(***************************************************************************)
NearDuplicate(bbox1, bbox2) ==
    \/ DistLE(calculate_bbox_distance(bbox1, bbox2), DedupProximity)
    \/ RatioGT(calculate_bbox_overlap_ratio(bbox1, bbox2), DedupOverlapPct)

C1_DedupIdempotence ==
    [][\A d2 \in RegistryAddInputs :
          ( /\ last.op = "add" /\ last.ok
            /\ AddRoute(d2)
            /\ d2.label = last.arg.label
            /\ d2.class_id = last.arg.class_id
            /\ NearDuplicate(last.arg.bbox, d2.bbox) )
          => /\ ~last'.ok
             /\ tracked_items' = tracked_items
             /\ tracked_items[Len(tracked_items)].bbox = last.arg.bbox ]_vars

\* add(CupB) or add(CupW) was rejected as a duplicate of another detection's item.
C1_Witness ==
    /\ last.op = "add" /\ ~last.ok
    /\ tracked_items # <<>>
    /\ LET item == tracked_items[Len(tracked_items)]
       IN  /\ item.bbox # last.arg.bbox
           /\ item.label = last.arg.label
           /\ item.class_id = last.arg.class_id
           /\ NearDuplicate(item.bbox, last.arg.bbox)

(***************************************************************************)
(* C2.  Id uniqueness: no two tracked items have the same id.              *)
(***************************************************************************)
C2_UniqueIds ==
    \A i, j \in Items : i # j => tracked_items[i].id # tracked_items[j].id

(***************************************************************************)
(* C3.  Hysteresis: an item that is not present has missed at least two    *)
(* cycles; a cycle that finds no match for an item matched before leaves   *)
(* it present with missing_count 1, and the second such cycle in a row     *)
(* sets is_present to false.                                               *)
(***************************************************************************)
C3_Hysteresis ==
    /\ [](\A i \in Items :
            ~tracked_items[i].is_present
                => tracked_items[i].missing_count >= MissingCountThreshold)
    /\ [][IsCycleStep =>
            \A i \in Items :
                NoCandidate(tracked_items[i]) =>
                    /\ tracked_items[i].missing_count = 0 /\ tracked_items[i].is_present
                          => /\ tracked_items'[i].missing_count = 1
                             /\ tracked_items'[i].is_present
                    /\ tracked_items[i].missing_count = 1
                          => /\ tracked_items'[i].missing_count = 2
                             /\ ~tracked_items'[i].is_present]_vars

\* After a cycle, one item has missed once and is present, another has
\* missed twice and is not.
C3_Witness ==
    /\ last.op = "cycle"
    /\ \E i, j \in Items :
          /\ tracked_items[i].missing_count = 1 /\ tracked_items[i].is_present
          /\ tracked_items[j].missing_count = 2 /\ ~tracked_items[j].is_present

(***************************************************************************)
(* C4.  Alarm edge-triggering: a cycle emits alarm_triggered only when its *)
(* missing set is non-empty and the alarm was off, alarm_cleared only when *)
(* its missing set is empty and the alarm was on; over consecutive cycles  *)
(* with no request in between, alarm_triggered is emitted in the first     *)
(* cycle with a non-empty missing set and not again while it stays         *)
(* non-empty, and alarm_cleared in the first cycle where it is empty       *)
(* again and not after.                                                    *)
(***************************************************************************)
C4_AlarmEdge ==
    [][IsCycleStep =>
          /\ EmitsNext("alarm_triggered") => missing_items' # <<>> /\ ~alarm_active
          /\ EmitsNext("alarm_cleared") => missing_items' = <<>> /\ alarm_active
          /\ Len(emitted') <= 1
          /\ last.op = "cycle" =>
                /\ missing_items = <<>> /\ missing_items' # <<>>
                      => EmitsNext("alarm_triggered")
                /\ missing_items # <<>> /\ missing_items' # <<>>
                      => ~EmitsNext("alarm_triggered")
                /\ missing_items # <<>> /\ missing_items' = <<>>
                      => EmitsNext("alarm_cleared")
                /\ missing_items = <<>> /\ missing_items' = <<>>
                      => ~EmitsNext("alarm_cleared")]_vars

\* A cycle has just cleared the alarm that an earlier cycle raised.
C4_Witness ==
    /\ last.op = "cycle"
    /\ Emitted("alarm_cleared")
    /\ ~alarm_active /\ missing_items = <<>>

(***************************************************************************)
(* C5.  Acknowledge semantics (cycles and commands atomic): acknowledge()  *)
(* leaves every tracked item that was in the missing set with              *)
(* alarm_enabled false, missing_items empty and alarm_active false; a      *)
(* cycle puts no item whose alarm is disabled in the missing set nor in    *)
(* the payload of alarm_triggered.                                         *)
(***************************************************************************)
C5_Acknowledge ==
    /\ [][IsRequest("acknowledge") =>
            /\ \A i \in Items :
                  InMissing(tracked_items[i]) => ~tracked_items'[i].alarm_enabled
            /\ missing_items' = <<>>
            /\ ~alarm_active']_vars
    /\ [][IsCycleStep =>
            \A i \in Items :
                ~tracked_items[i].alarm_enabled =>
                    /\ \A k \in 1..Len(missing_items') :
                          missing_items'[k].ref # tracked_items[i].ref
                    /\ \A k \in 1..Len(emitted') :
                          \A m \in 1..Len(emitted'[k].items) :
                              emitted'[k].items[m].ref # tracked_items[i].ref]_vars

(***************************************************************************)
(* C6.  start() validation: start() fails with 'No items to track' on an   *)
(* empty registry and fails when tracking is already active, and a failed  *)
(* start() changes none of tracking_active, the monitor thread, the        *)
(* registry and the alarm state; on a non-empty registry with tracking     *)
(* not active it succeeds and tracking_active becomes true.                *)
(***************************************************************************)
C6_StartValidation ==
    [][IsRequest("start") =>
          /\ tracked_items = <<>>
                => ~last'.ok /\ last'.msg = "No items to track"
          /\ tracking_active => ~last'.ok
          /\ ~last'.ok
                => UNCHANGED <<tracking_active, tracking_thread, threads, tracked_items,
                               alarm_active, missing_items>>
          /\ tracked_items # <<>> /\ ~tracking_active
                => last'.ok /\ tracking_active']_vars

\* start() has just been rejected because the monitor is running.
C6_Witness ==
    /\ last.op = "start" /\ ~last.ok
    /\ last.msg = "Tracking already active"
    /\ tracked_items # <<>>
    /\ tracking_active
    /\ IsAlive(tracking_thread)

(***************************************************************************)
(* C7.  clear() resets everything: immediately after clear() the registry  *)
(* is empty, tracking_active and alarm_active are false and missing_items  *)
(* is empty.                                                               *)
(***************************************************************************)
C7_ClearResets ==
    [][IsRequest("clear") =>
          /\ tracked_items' = <<>>
          /\ ~tracking_active'
          /\ ~alarm_active'
          /\ missing_items' = <<>>]_vars

(***************************************************************************)
(* C9.  stop() resets the alarm state: immediately after stop()            *)
(* tracking_active and alarm_active are false and missing_items is empty.  *)
(***************************************************************************)
C9_StopResets ==
    [][IsRequest("stop") =>
          /\ ~tracking_active'
          /\ ~alarm_active'
          /\ missing_items' = <<>>]_vars

(***************************************************************************)
(* C8.  No events after clear: once a clear() request has returned, with   *)
(* no request in progress and none served since, no step emits             *)
(* alarm_triggered, alarm_cleared or detection_tracking_update, whatever   *)
(* the monitor thread was doing when clear() ran.                          *)
(***************************************************************************)
C8_NoEventsAfterClear ==
    [][( /\ last.op = "clear"
         /\ \A h \in HandlerIds : handlers[h] = Idle
         /\ tracked_items = <<>>
         /\ ~tracking_active )
       => /\ ~EmitsNext("alarm_triggered")
          /\ ~EmitsNext("alarm_cleared")
          /\ ~EmitsNext("detection_tracking_update")]_vars

(***************************************************************************)
(* C10.  At most one monitor: in every reachable state at most one thread  *)
(* is inside the loop of check_tracked_items, whatever the interleaving    *)
(* of the start, stop and clear requests.                                  *)
(***************************************************************************)
InLoop(t) == threads[t].pc \in {"loop", "check", "iter", "publish", "alarm", "sleep"}

C10_OneMonitor == Cardinality({t \in ThreadIds : InLoop(t)}) <= 1

(***************************************************************************)
(* C11.  Cooperative cancellation: the monitor thread that is in its loop  *)
(* when stop() returns leaves the loop, whatever requests follow.          *)
(***************************************************************************)
C11_Cancellation ==
    \A t \in ThreadIds : (last.op = "stop" /\ InLoop(t)) ~> ~InLoop(t)

(***************************************************************************)
(* C12.  Missing-grace arithmetic, as stated: in every cycle an            *)
(* alarm-enabled item that the cycle does not match and that was last      *)
(* seen more than interval * multiplier seconds ago is in the cycle's      *)
(* missing set, and an item last seen less than that ago is not.           *)
(***************************************************************************)
GracePeriod == tracking_interval * MISSING_ITEM_THRESHOLD_MULTIPLIER

\* The item is referred to by the next missing_items.
InMissingNext(tracked_item) ==
    \E k \in 1..Len(missing_items') : missing_items'[k].ref = tracked_item.ref

C12_GraceAsStated ==
    [][IsCycleStep =>
          \A i \in Items :
              LET tracked_item == tracked_items[i]
              IN  /\ ( /\ tracked_item.alarm_enabled
                       /\ NoCandidate(tracked_item)
                       /\ now - tracked_item.last_seen > GracePeriod )
                        => InMissingNext(tracked_item)
                  /\ now - tracked_item.last_seen < GracePeriod
                        => ~InMissingNext(tracked_item)]_vars

(***************************************************************************)
(* C12, amended.  The same for the items that the cycle before did not     *)
(* match either (missing_count >= 1 when the cycle begins): an item joins  *)
(* the missing set only when it is not present any more.                   *)
(***************************************************************************)
C12_Grace ==
    [][IsCycleStep =>
          \A i \in Items :
              LET tracked_item == tracked_items[i]
              IN  /\ ( /\ tracked_item.alarm_enabled
                       /\ NoCandidate(tracked_item)
                       /\ tracked_item.missing_count >= 1
                       /\ now - tracked_item.last_seen > GracePeriod )
                        => /\ InMissingNext(tracked_item)
                           /\ ~tracked_items'[i].is_present
                  /\ now - tracked_item.last_seen < GracePeriod
                        => ~InMissingNext(tracked_item)]_vars

\* With the default interval, a cycle has put an item last seen 11 s ago in
\* the missing set.
C12_Witness ==
    /\ last.op = "cycle"
    /\ tracking_interval = DEFAULT_TRACKING_INTERVAL
    /\ \E i \in Items :
          /\ InMissing(tracked_items[i])
          /\ now - tracked_items[i].last_seen = 11

(***************************************************************************)
(* C13.  Sustained absence eventually alarms: under fair scheduling, while *)
(* the monitor runs, an alarm-enabled item last seen more than the grace   *)
(* period before the last second of the clock is eventually in             *)
(* missing_items with alarm_active true, unless it is matched in that      *)
(* last second, disabled or removed, or tracking is stopped, before.       *)
(***************************************************************************)
Refs == 1..(MaxItems + 1)

\* The item r is tracked with its alarm enabled, and was seen last more than
\* the grace period before the last second of the clock.
Enabled(r) ==
    \E i \in Items :
        /\ tracked_items[i].ref = r
        /\ tracked_items[i].alarm_enabled
        /\ tracked_items[i].last_seen + GracePeriod < ShortTime

Armed(r) ==
    /\ tracking_active
    /\ \E t \in ThreadIds : InLoop(t)
    /\ Enabled(r)

Alarmed(r) ==
    /\ alarm_active
    /\ \E k \in 1..Len(missing_items) : missing_items[k].ref = r

C13_EventuallyAlarms ==
    \A r \in Refs : Armed(r) ~> (Alarmed(r) \/ ~Armed(r))

\* A cycle has just raised the alarm for an item that is still tracked with
\* its alarm enabled.
C13_Witness ==
    /\ last.op = "cycle"
    /\ Emitted("alarm_triggered")
    /\ tracking_active
    /\ \E r \in Refs : Armed(r) /\ Alarmed(r)

(***************************************************************************)
(* C14.  setInterval validation: a request to the interval route succeeds  *)
(* and sets tracking_interval to n exactly when n is an integer with       *)
(* 1 <= n <= 60; for every other n it fails and leaves tracking_interval   *)
(* unchanged.                                                              *)
(***************************************************************************)
IsValidInterval(n) ==
    n.kind = "int" /\ MIN_TRACKING_INTERVAL <= n.num /\ n.num <= MAX_TRACKING_INTERVAL

C14_IntervalValidation ==
    [][IsRequest("interval") =>
          LET n == last'.arg
          IN  IF IsValidInterval(n)
              THEN last'.ok /\ tracking_interval' = n.num
              ELSE ~last'.ok /\ tracking_interval' = tracking_interval]_vars

(***************************************************************************)
(* C15.  enableAlarm: a request to enable the alarm of an id present in    *)
(* the registry succeeds, leaves every item with that id with              *)
(* alarm_enabled true and otherwise as it was, and changes no other item,  *)
(* nor alarm_active, nor missing_items; with an id that is not in the      *)
(* registry it reports "Item not found" and changes nothing.               *)
(***************************************************************************)
C15_EnableAlarm ==
    [][IsRequest("enable") =>
          LET item_id == last'.arg
          IN  IF HasId(tracked_items, item_id)
              THEN /\ last'.ok
                   /\ Len(tracked_items') = Len(tracked_items)
                   /\ \A i \in Items :
                         tracked_items'[i] =
                             IF tracked_items[i].id = item_id
                             THEN [tracked_items[i] EXCEPT !.alarm_enabled = TRUE]
                             ELSE tracked_items[i]
                   /\ UNCHANGED <<alarm_active, missing_items>>
              ELSE /\ ~last'.ok
                   /\ last'.msg = "Item not found"
                   /\ UNCHANGED <<registry_vars, latest_detections, camera_vars,
                                  now, threads, handlers>>]_vars

\* The alarm of an acknowledged item was enabled again: the item is absent
\* for longer than the grace period, is in no missing set, and another item
\* is tracked next to it.
C15_Witness ==
    /\ last.op = "enable"
    /\ last.ok
    /\ ~alarm_active
    /\ \E i \in Items :
          /\ tracked_items[i].id = last.arg
          /\ tracked_items[i].alarm_enabled
          /\ ~tracked_items[i].is_present
          /\ now - tracked_items[i].last_seen > GracePeriod
          /\ ~InMissing(tracked_items[i])
          /\ \E j \in Items : tracked_items[j].id # last.arg

(***************************************************************************)
(* C16.  remove: a request to remove an id present in the registry deletes *)
(* exactly one item, one with that id, and leaves the other items and      *)
(* their order unchanged; with an id that is not in the registry it leaves *)
(* the registry unchanged and reports success.                             *)
(***************************************************************************)
RemoveAt(items, i) == SubSeq(items, 1, i - 1) \o SubSeq(items, i + 1, Len(items))

C16_RemoveOne ==
    [][IsRequest("remove") =>
          LET item_id == last'.arg
          IN  /\ last'.ok
              /\ IF HasId(tracked_items, item_id)
                 THEN \E i \in Items :
                          /\ tracked_items[i].id = item_id
                          /\ tracked_items' = RemoveAt(tracked_items, i)
                 ELSE tracked_items' = tracked_items]_vars

(***************************************************************************)
(* C17.  Acknowledge frame: a request to acknowledge leaves the sequence   *)
(* of tracked items and every field of every item unchanged, except that   *)
(* it may change alarm_enabled of items that missing_items referred to.    *)
(***************************************************************************)
C17_AcknowledgeFrame ==
    [][IsRequest("acknowledge") =>
          /\ Len(tracked_items') = Len(tracked_items)
          /\ \A i \in Items :
                \/ tracked_items'[i] = tracked_items[i]
                \/ /\ InMissing(tracked_items[i])
                   /\ \E b \in BOOLEAN :
                         tracked_items'[i] = [tracked_items[i] EXCEPT !.alarm_enabled = b]]_vars

(***************************************************************************)
(* C18.  alarm_enabled lifecycle: an item is created with alarm_enabled    *)
(* true; a step that changes an item's alarm_enabled from true to false is *)
(* an acknowledge request, and a step that changes it from false to true   *)
(* is an enable request that names the item's id.                          *)
(***************************************************************************)
\* The item at position i is the same dict as the item at position j after
\* the step.
SameItemNext(i, j) == tracked_items'[j].ref = tracked_items[i].ref

C18_AlarmEnabledLifecycle ==
    /\ [][(IsRequest("add") /\ last'.ok) =>
             tracked_items'[Len(tracked_items')].alarm_enabled]_vars
    /\ [][\A i \in Items : \A j \in 1..Len(tracked_items') :
             SameItemNext(i, j) =>
                 /\ (tracked_items[i].alarm_enabled /\ ~tracked_items'[j].alarm_enabled)
                        => IsRequest("acknowledge")
                 /\ (~tracked_items[i].alarm_enabled /\ tracked_items'[j].alarm_enabled)
                        => (IsRequest("enable") /\ last'.arg = tracked_items[i].id)]_vars

\* An acknowledge request has disabled the alarm of an absent item while
\* tracking runs.
C18_Witness ==
    /\ last.op = "acknowledge"
    /\ tracking_active
    /\ \E i \in Items :
          /\ ~tracked_items[i].alarm_enabled
          /\ ~tracked_items[i].is_present
          /\ now - tracked_items[i].last_seen > GracePeriod

(***************************************************************************)
(* C19.  Skip on no batch: an iteration of the monitor that finds          *)
(* latest_detections empty or the registry empty changes no item's         *)
(* missing_count, is_present, last_seen or bbox, leaves missing_items and  *)
(* alarm_active unchanged, emits no event, and leaves the thread asleep    *)
(* for one interval.                                                       *)
(***************************************************************************)
\* The step is one iteration of the loop of a monitor thread, from the
\* while test to the sleep.
IsIterationStep(t) == threads[t].pc = "loop" /\ threads'[t].pc = "sleep"

C19_SkipOnNoBatch ==
    [][\A t \in ThreadIds :
          (IsIterationStep(t) /\ (latest_detections = <<>> \/ tracked_items = <<>>)) =>
              /\ Len(tracked_items') = Len(tracked_items)
              /\ \A i \in Items :
                    /\ tracked_items'[i].missing_count = tracked_items[i].missing_count
                    /\ tracked_items'[i].is_present = tracked_items[i].is_present
                    /\ tracked_items'[i].last_seen = tracked_items[i].last_seen
                    /\ tracked_items'[i].bbox = tracked_items[i].bbox
              /\ UNCHANGED <<missing_items, alarm_active>>
              /\ emitted' = <<>>
              /\ threads'[t].wake = Min(now + tracking_interval, MaxTime + 1)]_vars

(***************************************************************************)
(* C20.  Failed detector means no matches: a monitor cycle that follows a  *)
(* failed fetch of the detector, no request in between, finds no match:    *)
(* every item keeps its last_seen and bbox and has its missing_count       *)
(* incremented, as in a cycle whose batch is empty.                        *)
(***************************************************************************)
FetchFailed == last.op = "detect" /\ ~last.ok

C20_FailedFetchNoMatch ==
    [][(IsCycleStep /\ FetchFailed) =>
          /\ Len(tracked_items') = Len(tracked_items)
          /\ \A i \in Items :
                /\ tracked_items'[i].missing_count =
                       Min(tracked_items[i].missing_count + 1, MaxMissed)
                /\ tracked_items'[i].last_seen = tracked_items[i].last_seen
                /\ tracked_items'[i].bbox = tracked_items[i].bbox]_vars

(***************************************************************************)
(* C21.  Per-item error isolation: in a cycle in which the processing of   *)
(* one item raises, every other item is reconciled (its missing_count is   *)
(* reset by a match or incremented) and missing_items is recomputed: it    *)
(* holds an item if and only if the item is unmatched for the second time  *)
(* at least, enabled and past the grace period.                            *)
(***************************************************************************)
\* The step is a cycle in which the processing of some item raises.
IsRaisingCycleStep ==
    /\ IsCycleStep
    /\ \E i \in Items : ItemRaises(tracked_items[i], latest_detections)

C21_ErrorIsolation ==
    [][IsRaisingCycleStep =>
          \A i \in Items :
              ~ItemRaises(tracked_items[i], latest_detections) =>
                  /\ tracked_items'[i] =
                         ReconcileItem(tracked_items[i], latest_detections, now,
                                       tracking_interval).item
                  /\ InMissingNext(tracked_items[i]) <=>
                         ReconcileItem(tracked_items[i], latest_detections, now,
                                       tracking_interval).missing]_vars

(***************************************************************************)
(* C22.  The monitor survives a bad cycle: a cycle in which the processing *)
(* of an item raises leaves tracking_active as it was and the thread       *)
(* asleep for one interval, after which it is back at the test of its      *)
(* loop.                                                                   *)
(***************************************************************************)
\* The thread leaves the while test for a cycle in which the processing of
\* some item raises.
RunsRaisingCycle(t) ==
    /\ threads[t].pc = "loop"
    /\ threads'[t].pc # "loop"
    /\ tracking_active
    /\ \E i \in Items : ItemRaises(tracked_items[i], latest_detections)

C22_SurvivesBadCycle ==
    [][\A t \in ThreadIds :
          RunsRaisingCycle(t) =>
              /\ threads'[t].pc = "sleep"
              /\ threads'[t].wake = Min(now + tracking_interval, ShortTime + 1)
              /\ UNCHANGED <<tracking_active, tracking_thread>>]_vars

\* A cycle has raised and the thread is in its loop a second after: the
\* item before the one that raises was reconciled twice.
C22_Witness ==
    /\ last.op = "cycle"
    /\ ~last.ok
    /\ now >= 1
    /\ \E t \in ThreadIds : InLoop(t)
    /\ \E i \in Items : tracked_items[i].missing_count >= 2

(***************************************************************************)
(* C23.  Re-identification respects class_id: a cycle marks an item        *)
(* matched (missing_count reset, last_seen and bbox updated) only if the   *)
(* batch holds a detection of the item's label whose class_id, when both   *)
(* carry one, equals the item's.                                           *)
(***************************************************************************)
SameClass(tracked_item, detection) ==
    \/ tracked_item.class_id = DefaultClassId
    \/ detection.class_id = NoClassId
    \/ tracked_item.class_id = detection.class_id

\* The cycle has matched the item at position i.
MatchedNext(i) ==
    /\ Len(tracked_items') = Len(tracked_items)
    /\ tracked_items'[i].missing_count = 0
    /\ tracked_items'[i].is_present
    /\ tracked_items'[i].last_seen = now

C23_ReidRespectsClass ==
    [][IsCycleStep =>
          \A i \in Items :
              MatchedNext(i) =>
                  \E k \in 1..Len(latest_detections) :
                      /\ IsCandidate(tracked_items[i], latest_detections[k])
                      /\ SameClass(tracked_items[i], latest_detections[k])
                      /\ tracked_items'[i].bbox = latest_detections[k].bbox]_vars

(***************************************************************************)
(* C24.  Best match wins: in a cycle an item is matched if and only if     *)
(* some detection of the batch passes the re-identify thresholds, and its  *)
(* bbox after the cycle is then the bbox of a candidate whose centre       *)
(* distance to the item's bbox is minimal among the candidates, whatever   *)
(* the order of the batch.                                                 *)
(***************************************************************************)
Candidates(tracked_item) ==
    {k \in 1..Len(latest_detections) : IsCandidate(tracked_item, latest_detections[k])}

Distance(tracked_item, k) ==
    calculate_bbox_distance(tracked_item.bbox, latest_detections[k].bbox)

C24_BestMatchWins ==
    [][IsCycleStep =>
          \A i \in Items :
              LET tracked_item == tracked_items[i]
              IN  IF Candidates(tracked_item) = {}
                  THEN /\ tracked_items'[i].bbox = tracked_item.bbox
                       /\ tracked_items'[i].last_seen = tracked_item.last_seen
                       /\ tracked_items'[i].missing_count =
                              Min(tracked_item.missing_count + 1, MaxMissed)
                  ELSE /\ MatchedNext(i)
                       /\ \E k \in Candidates(tracked_item) :
                             /\ tracked_items'[i].bbox = latest_detections[k].bbox
                             /\ \A m \in Candidates(tracked_item) :
                                   ~DistLT(Distance(tracked_item, m),
                                           Distance(tracked_item, k))]_vars

\* A cycle has matched the item with the second detection of a batch of
\* two candidates: the nearer one, not the first.
C24_Witness ==
    /\ last.op = "cycle"
    /\ Len(latest_detections) = 2
    /\ \E i \in Items :
          /\ tracked_items[i].bbox = latest_detections[2].bbox
          /\ tracked_items[i].bbox # latest_detections[1].bbox
          /\ tracked_items[i].missing_count = 0
          /\ IsCandidate(tracked_items[i], latest_detections[1])

(***************************************************************************)
(* C25.  Geometry: the overlap ratio of two boxes is their intersection    *)
(* area over the smaller of their areas; it is 0 when a box is absent or   *)
(* empty, when the boxes do not overlap and when an area is 0; the         *)
(* intersection is between 0 and the smaller area; for (0,0,10,10) and     *)
(* (5,5,10,10) the intersection is 25, the smaller area 100 and the        *)
(* squared distance of the centres 50; the distance is infinite when a     *)
(* box is absent or empty.                                                 *)
(***************************************************************************)
Area(bbox) == bbox.w * bbox.h

\* The area that the two rectangles share.
IntersectionArea(bbox1, bbox2) ==
    Max(0, Min(bbox1.x + bbox1.w, bbox2.x + bbox2.w) - Max(bbox1.x, bbox2.x))
        * Max(0, Min(bbox1.y + bbox1.h, bbox2.y + bbox2.h) - Max(bbox1.y, bbox2.y))

Absent(bbox) == bbox.k \in {"none", "empty"}

C25_Geometry ==
    last.op = "geometry" =>
        LET bbox1 == last.arg[1]
            bbox2 == last.arg[2]
            ratio == last.msg.overlap
            distance == last.msg.distance
            smaller == Min(Area(bbox1), Area(bbox2))
        IN  /\ ratio[2] > 0
            /\ 0 <= ratio[1] /\ ratio[1] <= ratio[2]
            /\ IF Absent(bbox1) \/ Absent(bbox2) \/ smaller = 0
                  \/ IntersectionArea(bbox1, bbox2) = 0
               THEN ratio[1] = 0
               ELSE /\ ratio[1] * smaller = IntersectionArea(bbox1, bbox2) * ratio[2]
                    /\ IntersectionArea(bbox1, bbox2) <= smaller
            /\ (Absent(bbox1) \/ Absent(bbox2)) <=> distance = Inf
            /\ (bbox1 = BoxA /\ bbox2 = BoxB) =>
                  /\ ratio = <<25, 100>>
                  /\ distance = 4 * 50

\* The functions were applied to (0,0,10,10) and (5,5,10,10).
C25_Witness ==
    /\ last.op = "geometry"
    /\ last.arg = <<BoxA, BoxB>>
    /\ last.msg.overlap = <<25, 100>>

(***************************************************************************)
(* C26.  Active rises only on an empty-to-non-empty transition: every step *)
(* in which alarm_active changes from false to true is a monitor cycle     *)
(* with missing_items empty before it and non-empty after it.              *)
(***************************************************************************)
C26_RisesOnTransition ==
    [][(~alarm_active /\ alarm_active') =>
          /\ IsCycleStep
          /\ missing_items = <<>>
          /\ missing_items' # <<>>]_vars

(***************************************************************************)
(* C27.  Cycle publishes presence: every reconciliation cycle over a       *)
(* non-empty registry emits a detection_tracking_update event.             *)
(***************************************************************************)
C27_CyclePublishes ==
    [][IsCycleStep => EmitsNext("detection_tracking_update")]_vars

(***************************************************************************)
(* C28.  status() is an untorn snapshot: the values of alarm_active and    *)
(* missing_items that a status request returns are values the two          *)
(* variables hold together in a state of the system.  Next to cycles and   *)
(* acknowledge requests that run atomically, alarm_active is true exactly  *)
(* when missing_items is non-empty in every state (AlarmHeldWithMissing), so   *)
(* the returned pair satisfies the same.                                   *)
(***************************************************************************)
AlarmMatchesMissing(active, missing) == active <=> missing # <<>>

AlarmHeldWithMissing == AlarmMatchesMissing(alarm_active, missing_items)

C28_StatusUntorn ==
    last.op = "status" =>
        AlarmMatchesMissing(last.msg.alarm_active, last.msg.missing_items)

(***************************************************************************)
(* C29.  remove is serialized against the cycle: an item that a remove     *)
(* request has taken out of the registry is not placed in missing_items    *)
(* afterwards and is not in the payload of an alarm_triggered event        *)
(* emitted afterwards: what a cycle publishes as missing, and what it      *)
(* reports, are items of the registry.                                     *)
(***************************************************************************)
IsTracked(ref) == \E i \in Items : tracked_items[i].ref = ref

\* The step assigns state.missing_items (line 168).
IsPublishStep == \E t \in ThreadIds : threads[t].pc = "publish" /\ threads'[t].pc = "alarm"

C29_RemovedNeverMissing ==
    /\ [][IsPublishStep =>
             \A k \in 1..Len(missing_items') : IsTracked(missing_items'[k].ref)]_vars
    /\ [][\A e \in 1..Len(emitted') :
             emitted'[e].name = "alarm_triggered" =>
                 \A m \in 1..Len(emitted'[e].items) : IsTracked(emitted'[e].items[m].ref)]_vars

(***************************************************************************)
(* C30.  Concurrent adds are deduplicated: of the add requests that carry  *)
(* the same detection (same label, class_id and bbox) one creates a        *)
(* TrackedItem and the others are rejected, so the registry never holds    *)
(* two items with the same label, class_id and bbox.                       *)
(***************************************************************************)
SameDetection(i, j) ==
    /\ tracked_items[i].label = tracked_items[j].label
    /\ tracked_items[i].class_id = tracked_items[j].class_id
    /\ tracked_items[i].bbox = tracked_items[j].bbox

C30_ConcurrentAddsDeduplicated ==
    \A i, j \in Items : SameDetection(i, j) => i = j

(***************************************************************************)
(* C31.  alarm_cleared only from the Active-to-Cleared transition of a     *)
(* cycle: a step that emits alarm_cleared is a monitor cycle that found    *)
(* alarm_active true and computed an empty missing set, and alarm_active   *)
(* changes only in a monitor cycle or in an acknowledge request.           *)
(***************************************************************************)
C31_ClearedOnlyByCycle ==
    /\ [][EmitsNext("alarm_cleared") =>
             IsCycleStep /\ alarm_active /\ missing_items' = <<>>]_vars
    /\ [][alarm_active' # alarm_active =>
             IsCycleStep \/ IsRequest("acknowledge")]_vars

(***************************************************************************)
(* C32.  The dedup decision is exactly the stated predicate: add(d) is     *)
(* rejected if and only if some tracked item has d's label, d's class_id   *)
(* when d carries one, and a bbox at centre distance <= 25 from d's or     *)
(* overlapping it by more than 0.3, an absent or empty bbox being at       *)
(* distance +infinity and overlap 0 from every bbox.                       *)
(***************************************************************************)
StatedDuplicate(tracked_item, d) ==
    /\ tracked_item.label = d.label
    /\ d.class_id # NoClassId => tracked_item.class_id = d.class_id
    /\ NearDuplicate(d.bbox, tracked_item.bbox)

C32_DedupIsStatedPredicate ==
    [][\A d \in RegistryAddInputs :
          IsRequest("add") /\ last'.arg = d =>
              (~last'.ok <=> \E i \in Items : StatedDuplicate(tracked_items[i], d))]_vars

(***************************************************************************)
(* C33.  Acknowledge racing with a cycle: an item that was in the missing  *)
(* set when acknowledge() returned has alarm_enabled false until           *)
(* enableAlarm is called for it; no alarm_triggered event emitted          *)
(* afterwards has such an item in its payload, and alarm_active does not   *)
(* become true with a missing set made of such items only.                 *)
(***************************************************************************)
\* After the step, the dict is a tracked item whose alarm is disabled.
DisarmedNext(ref) ==
    \E i \in 1..Len(tracked_items') :
        tracked_items'[i].ref = ref /\ ~tracked_items'[i].alarm_enabled

C33_AcknowledgedStaysSilent ==
    [][/\ \A e \in 1..Len(emitted') :
             emitted'[e].name = "alarm_triggered" =>
                 \A m \in 1..Len(emitted'[e].items) :
                     ~DisarmedNext(emitted'[e].items[m].ref)
       /\ ~alarm_active /\ alarm_active' =>
             \E k \in 1..Len(missing_items') : ~DisarmedNext(missing_items'[k].ref)]_vars

(***************************************************************************)
(* C34.  Idle implies alarm cleared: in every reachable state, whatever    *)
(* the interleaving of stop, clear and the statements of a cycle in        *)
(* progress, tracking_active = false implies alarm_active = false.         *)
(***************************************************************************)
C34_IdleImpliesCleared == ~tracking_active => ~alarm_active

(***************************************************************************)
(* C35.  Running implies a live monitor: in every reachable state,         *)
(* tracking_active = true implies that some monitor thread is inside the   *)
(* loop of check_tracked_items (it has not found the flag false at the     *)
(* while test), so that a cycle can follow every successful start().       *)
(***************************************************************************)
C35_RunningImpliesMonitor == tracking_active => \E t \in ThreadIds : InLoop(t)

(***************************************************************************)
(* C36.  The missing set is a subset of the registry: in every state       *)
(* between requests and cycles, every item of missing_items is an item of  *)
(* tracked_items; after remove(id), clear() or stop() no removed item      *)
(* remains in missing_items.                                               *)
(***************************************************************************)
C36_MissingWithinRegistry ==
    \A k \in 1..Len(missing_items) : IsTracked(missing_items[k].ref)

(***************************************************************************)
(* C37.  The alarm does not stay stuck after removal: under fair           *)
(* scheduling, when alarm_active is true, the monitor is running and no    *)
(* item of the missing set is in the registry any more, eventually         *)
(* alarm_active is false and missing_items is empty (or tracking has been  *)
(* stopped).                                                               *)
(***************************************************************************)
MissingAllRemoved ==
    /\ alarm_active
    /\ tracking_active
    /\ \E t \in ThreadIds : InLoop(t)
    /\ missing_items # <<>>
    /\ \A k \in 1..Len(missing_items) : ~IsTracked(missing_items[k].ref)

C37_AlarmNotStuck ==
    MissingAllRemoved ~> ((~alarm_active /\ missing_items = <<>>) \/ ~tracking_active)

(***************************************************************************)
(* C38.  Add-then-monitor round trip: an item created by add(d), d being   *)
(* in every later batch unchanged with confidence > 0.3, is matched in     *)
(* every monitor cycle: its missing_count stays 0, is_present stays true   *)
(* and it never enters the missing set, whatever the bbox of d.            *)
(***************************************************************************)
C38_RoundTrip ==
    \A i \in Items :
        /\ tracked_items[i].missing_count = 0
        /\ tracked_items[i].is_present
        /\ ~InMissing(tracked_items[i])

(***************************************************************************)
(* C39.  Alarm events alternate, so that a listener that follows the       *)
(* events knows alarm_active: alarm_triggered is emitted only by a step    *)
(* that sets alarm_active, every step that sets alarm_active emits it,     *)
(* and every step that resets alarm_active emits alarm_cleared or          *)
(* alarm_acknowledged; hence an alarm_cleared or alarm_acknowledged lies   *)
(* between any two alarm_triggered events.                                 *)
(***************************************************************************)
C39_EventsFollowAlarm ==
    [][/\ EmitsNext("alarm_triggered") <=> ~alarm_active /\ alarm_active'
       /\ alarm_active /\ ~alarm_active' =>
             EmitsNext("alarm_cleared") \/ EmitsNext("alarm_acknowledged")]_vars

(***************************************************************************)
(* C40.  One detection accounts for at most one item: within one monitor   *)
(* cycle no detection is the match of two tracked items, so a cycle        *)
(* matches at most as many items as the batch holds detections; with two   *)
(* items and one detection, at least one item is counted as unmatched.     *)
(***************************************************************************)
\* The items the step leaves matched (line 139: missing_count = 0).
MatchedItemsNext == {i \in 1..Len(tracked_items') : tracked_items'[i].missing_count = 0}

C40_OneDetectionOneItem ==
    [][IsCycleStep /\ last'.op = "cycle" /\ last'.ok =>
          Cardinality(MatchedItemsNext) <= Len(latest_detections)]_vars

====
